---- MODULE Spec2Model ----
(***************************************************************************)
(* Relayer core of mobility-backend: the withdrawal state machine          *)
(* (recordWithdrawalEvent, attestWithdrawal) and the payout processor      *)
(* (setupWithdrawalListener / processPendingWithdrawals) over the          *)
(* Transaction collection; the Bitcoin wallet (getUtxos, estimateFeeRate,  *)
(* sendBitcoinTransaction) with processWithdrawalToBitcoin; the deposit    *)
(* orchestrator (processDeposit, verifyBitcoinTransaction); and the event  *)
(* listener (startListenerLoop, fetchWithdrawEvents, processWithdrawEvent) *)
(* with its persisted cursor.                                              *)
(*                                                                         *)
(* Every await of the source is a suspension point: an action ends where   *)
(* an await resolves, and awaits whose resolution touches no state of the  *)
(* model are part of the action that follows them.  A storage call may     *)
(* throw at any await.  The                                                *)
(* store is MongoDB as mongoose drives it: a document save outside a       *)
(* session is an atomic $set of the modified paths; inside a session's     *)
(* transaction, reads see the committed snapshot, a write to a document    *)
(* that was committed to after the snapshot or that another transaction    *)
(* holds raises a write conflict, and commit applies the write atomically. *)
(***************************************************************************)
EXTENDS Integers, Sequences, FiniteSets, TLC

\* Number of service calls (recordWithdrawalEvent or attestWithdrawal) of a run.
MaxCalls == 2

\* Number of payout cycles (the startup run and the interval runs) of a run.
MaxCycles == 2

WITHDRAWAL_ATTESTATION_THRESHOLD == 1

Calls == 1..MaxCalls

Cycles == 1..MaxCycles

\* The chain events delivered to recordWithdrawalEvent.
EventIds == {"evt-42", "evt-43"}

NoPayload == [bitcoinAddress |-> "", amount |-> 0]

\* The arguments (bitcoinAddress, amount) delivered with an event: one event
\* carries a complete payload, the other lacks the payout address and amount.
Payload(e) ==
  IF e = "evt-42" THEN [bitcoinAddress |-> "tb1qdest", amount |-> 600000]
  ELSE NoPayload

VARIABLES
  store,     \* the Transaction collection: a sequence of documents, _id = index
  calls,     \* per service call: operation, position, arguments, document read
  cycles,    \* per payout cycle: position, selected documents
  lastRet,   \* what the call that finished last returned or threw
  acks,      \* per document: attestWithdrawal invocations that returned an update
  observed,  \* whether lastIter is recorded in this specification
  lastIter,  \* the payout loop iteration that ended last
  chain,          \* the wallet address's unspent outputs on the Bitcoin network
  cachedUtxos,    \* the wallet module's cachedUtxos
  lastUtxoFetch,  \* the wallet module's lastUtxoFetch
  now,            \* Date.now()
  sends,          \* per wallet call: operation, position, arguments, locals
  broadcasts,     \* the transactions the network accepted
  walletLog,      \* the error the wallet functions logged last
  deposits,       \* per processDeposit call: position, arguments, locals
  collateral,     \* the chain addresses that own a collateral proof object
  attestations,   \* the attest_btc_deposit calls the chain executed, in order
  depRet,         \* what the processDeposit call that finished last returned
  feed,           \* the chain's event feed as the RPC node serves it
  cursorRows,     \* the CursorState collection
  listener        \* the event listener's process: module state, loop, poll

\* The wallet (UTXO and fee engine).
walletVars ==
  <<chain, cachedUtxos, lastUtxoFetch, now, sends, broadcasts, walletLog>>

\* The deposit orchestrator.
depositVars == <<deposits, collateral, attestations, depRet>>

\* The event listener.
listenerVars == <<feed, cursorRows, listener>>

\* The components the withdrawal state machine and its payout loop (with
\* the send taken as a result) do not touch.
others == <<walletVars, depositVars, listenerVars>>

vars == <<store, calls, cycles, lastRet, acks, observed, lastIter, others>>

Ids == 1..Len(store)

----------------------------------------------------------------------------
(* TransactionSchema and the document recordWithdrawalEvent constructs.    *)
(* error = "" and bitcoinWithdrawalTxHash = 0 stand for an absent field;   *)
(* bitcoinWithdrawalTxHash = n > 0 is the n-th transaction id written to   *)
(* the document (transaction ids are opaque and pairwise distinct).        *)

NewTransaction(e, p) ==
  [ type |-> "withdrawal",
    eventId |-> e,
    status |-> "processing",
    bitcoinAddress |-> p.bitcoinAddress,
    withdrawalAmount |-> p.amount,
    withdrawalAttestations |-> 0,
    withdrawalThresholdReached |-> FALSE,
    bitcoinWithdrawalTxHash |-> 0,
    processedAt |-> FALSE,
    error |-> "" ]

NoDoc == NewTransaction("", NoPayload)

\* What a call returns: kind tells the return statement taken ("error": the
\* call threw), op the function called, txId the document it is about.
\* retry tells that the call was made after attestWithdrawal threw for
\* the same document.
NoRet ==
  [ op |-> "none", txId |-> 0, kind |-> "none", retry |-> FALSE, status |-> "",
    attestations |-> 0, thresholdReached |-> FALSE, bitcoinTxHash |-> 0 ]

\* snap is the document findById resolved with (the transaction's snapshot).
IdleCall ==
  [ op |-> "none", pc |-> "idle", eventId |-> "", payload |-> NoPayload,
    txId |-> 0, retry |-> FALSE, snap |-> NoDoc ]

\* A call that returned or threw.
Finished == [IdleCall EXCEPT !.pc = "done"]

IdleCycle == [pc |-> "idle", sel |-> <<>>]

\* No iteration yet: cycle 0.  sent tells whether processWithdrawalToBitcoin
\* resolved with a hash, saves how many of the iteration's saves rejected.
NoIter == [cycle |-> 0, txId |-> 0, sent |-> FALSE, rejected |-> 0]

----------------------------------------------------------------------------
(* The wallet: getUtxos, getWalletBalance, estimateFeeRate and             *)
(* sendBitcoinTransaction, and the withdrawal utilities that call them     *)
(* (validateBitcoinAddress, checkSufficientBitcoinBalance,                 *)
(* processWithdrawalToBitcoin).  An unspent output is [id, value]; the     *)
(* explorer API lists outputs in id order.                                 *)

\* Number of wallet calls (processWithdrawalToBitcoin by a payout cycle, or
\* sendBitcoinTransaction called directly) of a run.
MaxSends == 2

Sends == 1..MaxSends

UTXO_CACHE_TTL == 60000

\* The transaction size model of the selection loop.
INPUT_BYTES == 148

OUTPUT_BYTES == 34

OVERHEAD_BYTES == 10

SAFETY_BUFFER == 1000

DUST_THRESHOLD == 546

\* The rate estimateFeeRate returns when the fee API fails.
FALLBACK_FEE_RATE == 10

MIN_WITHDRAWAL == 10000

MAX_WITHDRAWAL == 1000000000

\* Fee rates (satoshis per byte) estimateFeeRate computes from the fee API.
FeeRates == {5, 10}

\* Destination addresses: none, one that is no Bitcoin address, a testnet
\* bech32 address, and a mainnet P2PKH address.
Addresses == {"", "not-an-address", "tb1qdest", "1BoatSLRHtKNngkdXEeobR76b53LETtpyT"}

\* Amounts: none, the minimum withdrawal, and a larger one.
Amounts == {0, 10000, 600000}

\* What the wallet address holds when a run starts: the values of its
\* unspent outputs, in id order.
Funds ==
  { <<>>, <<12100>>, <<12806>>, <<5000, 9000>>, <<20000, 12806>>,
    <<200000, 300000>> }

\* validateBitcoinAddress on Addresses: the two regular expressions accept
\* 1... and 3... base58 strings of 26 to 35 characters and bc1... strings.
validateBitcoinAddress(a) == a = "1BoatSLRHtKNngkdXEeobR76b53LETtpyT"

\* Whether bitcoinjs has an output script for the address on some network
\* (address.toOutputScript, called by psbt.addOutput).
WellFormed(a) == a \in {"tb1qdest", "1BoatSLRHtKNngkdXEeobR76b53LETtpyT"}

\* utxos.reduce((sum, utxo) => sum + utxo.value, 0)
RECURSIVE TotalValue(_)
TotalValue(utxos) ==
  IF utxos = {} THEN 0
  ELSE LET u == CHOOSE x \in utxos : TRUE
       IN u.value + TotalValue(utxos \ {u})

\* [...utxos].sort((a, b) => a.value - b.value): ascending by value, outputs
\* of equal value in the order fetched (the sort is stable).
RECURSIVE SortedUtxos(_)
SortedUtxos(utxos) ==
  IF utxos = {} THEN <<>>
  ELSE LET u == CHOOSE x \in utxos :
                  \A y \in utxos :
                    x.value < y.value \/ (x.value = y.value /\ x.id <= y.id)
       IN <<u>> \o SortedUtxos(utxos \ {u})

\* The outputs of a sequence, as a set.
Range(seq) == {seq[n] : n \in 1..Len(seq)}

\* estimatedTxSize for a number of inputs (two outputs assumed).
EstimatedTxSize(inputs) ==
  inputs * INPUT_BYTES + 2 * OUTPUT_BYTES + OVERHEAD_BYTES

\* A stop condition without the buffer.
EnoughNoBuffer(sorted, n, amount, feeRate) ==
  TotalValue(Range(SubSeq(sorted, 1, n))) >= amount + EstimatedTxSize(n) * feeRate

\* The stop condition of the selection loop after n outputs are selected.
Enough(sorted, n, amount, feeRate) ==
  TotalValue(Range(SubSeq(sorted, 1, n)))
    >= amount + EstimatedTxSize(n) * feeRate + SAFETY_BUFFER

\* The selection loop: the number of outputs selected, having selected n - 1
\* without reaching the stop condition.
RECURSIVE SelectFrom(_, _, _, _)
SelectFrom(sorted, n, amount, feeRate) ==
  IF n >= Len(sorted) \/ Enough(sorted, n, amount, feeRate) THEN n
  ELSE SelectFrom(sorted, n + 1, amount, feeRate)

\* selectedUtxos for a non-empty list of outputs.
SelectedUtxos(utxos, amount, feeRate) ==
  SubSeq(SortedUtxos(utxos), 1, SelectFrom(SortedUtxos(utxos), 1, amount, feeRate))

\* fee = estimatedTxSize * feeRate after the loop.
Fee(selected, feeRate) == EstimatedTxSize(Len(selected)) * feeRate

\* A check that never fails.
InsufficientNever(selected, amount, feeRate) == FALSE

\* The insufficient-balance check after the loop.
Insufficient(selected, amount, feeRate) ==
  TotalValue(Range(selected)) < amount + Fee(selected, feeRate)

\* A change that returns the fee to the wallet.
ChangeAmountBeforeFee(selected, amount, feeRate) ==
  TotalValue(Range(selected)) - amount

\* changeAmount
ChangeAmount(selected, amount, feeRate) ==
  TotalValue(Range(selected)) - amount - Fee(selected, feeRate)

\* A change condition that admits the threshold itself.
HasChangeAtDust(changeAmount) == changeAmount >= DUST_THRESHOLD

\* Whether the change output is added.
HasChange(changeAmount) == changeAmount > DUST_THRESHOLD

\* The transaction built: inputs in selection order, the destination output
\* and the change output (change = 0: none).
BuiltTx(selected, to, amount, feeRate) ==
  [ inputs |-> selected,
    to |-> to,
    amount |-> amount,
    feeRate |-> feeRate,
    change |-> IF HasChange(ChangeAmount(selected, amount, feeRate))
               THEN ChangeAmount(selected, amount, feeRate) ELSE 0 ]

NoTx == [inputs |-> <<>>, to |-> "", amount |-> 0, feeRate |-> 0, change |-> 0]

\* minimumRequired = Math.floor(amount * 1.2); for the integer amounts of a
\* withdrawal the double product rounds to the exact value of 6 * amount / 5.
MinimumRequired(amount) == amount + amount \div 5

\* A wallet call.  op: "withdraw" is processWithdrawalToBitcoin called by
\* a payout run for document txId, "send" a direct sendBitcoinTransaction
\* call, "utxos" a direct getUtxos(forceRefresh) call.
\* checked: checkSufficientBitcoinBalance returned true.  net: the call made
\* a network request.  fetchedAt: `now` of the getUtxos call in progress.
\* resp: the outputs the explorer listed, then the outputs getUtxos
\* resolved with.  tx: the transaction built.
\* result: the hash returned (0: null).
IdleSend ==
  [ op |-> "none", pc |-> "idle", txId |-> 0, to |-> "", amount |-> 0,
    checked |-> FALSE, net |-> FALSE, feeRate |-> 0, fetchedAt |-> 0,
    resp |-> {}, tx |-> NoTx, result |-> 0, forceRefresh |-> FALSE ]

\* The wallet module when loaded, with funds f at the wallet address.  The
\* clock starts at a time later than the cache's time to live.
WalletLoaded(f) ==
  /\ chain = {[id |-> n, value |-> f[n]] : n \in 1..Len(f)}
  /\ cachedUtxos = {}
  /\ lastUtxoFetch = 0
  /\ now = UTXO_CACHE_TTL
  /\ sends = [w \in Sends |-> IdleSend]
  /\ broadcasts = <<>>
  /\ walletLog = ""

----------------------------------------------------------------------------
(* The deposit orchestrator: processDeposit, verifyBitcoinTransaction and  *)
(* the chain utilities checkCollateralExists, createCollateralObject and   *)
(* attestToCollateral.  attestOrCreateProof.service.ts exports none of the *)
(* functions these utilities import and its attestBtcDeposit returns no    *)
(* value, so the utilities are taken at their declared types: a lookup     *)
(* resolves with a boolean, create and attest resolve with a digest or     *)
(* with null.                                                              *)

\* Number of processDeposit calls of a run.
MaxDeposits == 2

Deposits == 1..MaxDeposits

\* The minimum of confirmations (constants.ts; the README gives its default).
MIN_REQUIRED_CONFIRMATIONS == 2

\* Chain addresses of depositors.
SuiAddresses == {"0xabc"}

\* Heights the explorer reports for the tip of the chain.
Heights == {100}

\* What the explorer answers about a transaction: a failed request (of the
\* height or of the transaction), an unconfirmed transaction, or one
\* confirmed in the block at block_height.
NoResponse == [kind |-> "none", height |-> 0, block_height |-> 0]

Responses ==
  {[kind |-> k, height |-> h, block_height |-> 0] :
     k \in {"error", "unconfirmed"}, h \in Heights}
  \cup {[kind |-> "confirmed", height |-> h, block_height |-> b] :
          h \in Heights, b \in 98..101}

\* confirmations
Confirmations(response) == response.height - response.block_height + 1

\* A verification that rejects the minimum itself.
verifyAboveMinimum(response) ==
  /\ response.kind = "confirmed"
  /\ ~(Confirmations(response) <= MIN_REQUIRED_CONFIRMATIONS)

\* verifyBitcoinTransaction, given what the explorer answered.
verifyBitcoinTransaction(response) ==
  /\ response.kind = "confirmed"
  /\ ~(Confirmations(response) < MIN_REQUIRED_CONFIRMATIONS)

\* The Bitcoin transactions depositors submit, by hash.
TxHashes == {"aa", "bb"}

\* An output value as the explorer's JSON gives it, a decimal number:
\* num / den.
Decimal(num, den) == [num |-> num, den |-> den]

\* GET /tx/:hash of the explorer, of which the utilities read vout[0].value:
\* 0.01 and 0.07, each followed by a change output.
Explorer ==
  [ aa |-> [vout |-> <<Decimal(1, 100), Decimal(3, 2)>>],
    bb |-> [vout |-> <<Decimal(7, 100), Decimal(1, 100)>>] ]

\* The values whose product with 100000000 is no integer in double
\* arithmetic: 0.07 * 100000000 is 7000000.000000001.
InexactProducts == {Decimal(7, 100)}

\* BigInt(x) of a number that is no integer throws a RangeError.
RangeError == -1

\* BigInt(value * 100000000)
SatoshisOf(value) ==
  IF value \in InexactProducts
  THEN RangeError
  ELSE (value.num * 100000000) \div value.den

\* An amount taken from the second output.
attestedAmountOfSecondOutput(txDetails) == SatoshisOf(txDetails.vout[2])

\* const amount = BigInt(txDetails.vout[0].value * 100000000) of
\* createCollateralObject and of attestToCollateral.
attestedAmount(txDetails) == SatoshisOf(txDetails.vout[1])

\* new Transaction({...}) of processDeposit: hash = 0 and error = "" stand
\* for an absent field.
NewDeposit(suiAddress, bitcoinTxHash) ==
  [ type |-> "deposit",
    status |-> "processing",
    suiAddress |-> suiAddress,
    bitcoinTxHash |-> bitcoinTxHash,
    collateralCreated |-> FALSE,
    hash |-> 0,
    processedAt |-> FALSE,
    error |-> "" ]

\* A processDeposit call.  existed: a collateral object existed for the
\* chain address when the call was made.  transaction: the in-memory
\* document; txId: its place in the store once inserted.  seen, isVerified:
\* what verifyBitcoinTransaction was answered and what it returned, while
\* the call is at the statement after it.  collateralExists, txHash: the
\* locals of these names (txHash 0: null).
IdleDeposit ==
  [ pc |-> "idle", txId |-> 0, existed |-> FALSE,
    transaction |-> NewDeposit("", ""), seen |-> NoResponse, isVerified |-> FALSE,
    collateralExists |-> FALSE, txHash |-> 0 ]

\* A call that returned or threw.
DoneDeposit == [IdleDeposit EXCEPT !.pc = "done"]

\* What the last processDeposit call to end returned (kind "returned") or
\* that it threw (kind "threw").
NoDepRet ==
  [ kind |-> "none", txId |-> 0, existed |-> FALSE, status |-> "",
    hash |-> 0, collateralCreated |-> FALSE ]

DepositsIdle ==
  /\ deposits = [d \in Deposits |-> IdleDeposit]
  /\ collateral = {}
  /\ attestations = <<>>
  /\ depRet = NoDepRet

----------------------------------------------------------------------------
(* The event listener (setupContinuousEventListener, startListenerLoop,    *)
(* fetchWithdrawEvents, processWithdrawEvent) over the chain's event feed  *)
(* and the CursorState collection.  RESET_EVENT_CURSOR is not set.         *)
(*                                                                         *)
(* The feed is the ascending sequence of WithdrawEvent events the node     *)
(* holds; an event's id is its position in the feed, and a cursor is the   *)
(* id of the last event a page ended with (0 is null: the start of the     *)
(* history).  An event is [id, parsedJson].                                *)

MAX_CONSECUTIVE_FAILURES == 5

baseIntervalMs == 5000

MAX_INTERVAL_MS == 30000

QUERY_LIMIT == 50

batchSize == 10

MAX_PROCESSED_EVENTS == 10000

CLEANUP_THRESHOLD == 5000

EVENTS_TO_KEEP == 1000

MAX_WITHDRAWAL_AMOUNT == 10 * 100000000

\* address.length of the destination addresses.
AddressLength(a) ==
  CASE a = "" -> 0
    [] a = "not-an-address" -> 14
    [] a = "tb1qdest" -> 8
    [] a = "1BoatSLRHtKNngkdXEeobR76b53LETtpyT" -> 34
    [] a = "1A1zP1eP5QGefi2DMPTfTL5SLmv7DivfN0" -> 34

\* address.startsWith('1'), ('3') or ('bc1').
StartsWithMainnetPrefix(a) ==
  a \in {"1BoatSLRHtKNngkdXEeobR76b53LETtpyT", "1A1zP1eP5QGefi2DMPTfTL5SLmv7DivfN0"}

\* /^[a-zA-Z0-9]+$/.test(address)
OnlyLettersAndDigits(a) ==
  a \in {"tb1qdest", "1BoatSLRHtKNngkdXEeobR76b53LETtpyT",
         "1A1zP1eP5QGefi2DMPTfTL5SLmv7DivfN0"}

\* The listener's own validateBitcoinAddress.
listenerValidateBitcoinAddress(a) ==
  IF AddressLength(a) < 26 \/ AddressLength(a) > 35 THEN FALSE
  ELSE IF ~StartsWithMainnetPrefix(a) THEN FALSE
  ELSE OnlyLettersAndDigits(a)

\* eventData.amount: absent, a value Number() cannot parse, or a number.
NoAmount == [kind |-> "undefined", value |-> 0]

UnparsableAmount == [kind |-> "nan", value |-> 0]

AmountOf(n) == [kind |-> "number", value |-> n]

\* event.parsedJson of a withdrawal the contract emitted for a mainnet address.
ValidWithdrawal ==
  [ present |-> TRUE, user |-> "0xabc",
    btc_address |-> "1BoatSLRHtKNngkdXEeobR76b53LETtpyT",
    amount |-> AmountOf(600000) ]

\* The malformed payloads: no parsed data; no user, address or amount; an
\* address of invalid format; an amount that is unparsable, zero, negative
\* or above the maximum.
MalformedShapes ==
  { [ValidWithdrawal EXCEPT !.present = FALSE],
    [ValidWithdrawal EXCEPT !.user = ""],
    [ValidWithdrawal EXCEPT !.btc_address = ""],
    [ValidWithdrawal EXCEPT !.amount = NoAmount],
    [ValidWithdrawal EXCEPT !.btc_address = "tb1qdest"],
    [ValidWithdrawal EXCEPT !.btc_address = "not-an-address"],
    [ValidWithdrawal EXCEPT !.amount = UnparsableAmount],
    [ValidWithdrawal EXCEPT !.amount = AmountOf(0)],
    [ValidWithdrawal EXCEPT !.amount = AmountOf(-1)],
    [ValidWithdrawal EXCEPT !.amount = AmountOf(MAX_WITHDRAWAL_AMOUNT + 1)] }

\* The checks of processWithdrawEvent in their order: which return statement
\* an event's payload takes ("record": recordWithdrawalEvent is called).
Validation(d) ==
  IF ~d.present THEN "no data"
  ELSE IF d.user = "" \/ d.btc_address = "" \/ d.amount.kind = "undefined"
    THEN "missing fields"
  ELSE IF ~listenerValidateBitcoinAddress(d.btc_address) THEN "invalid address"
  ELSE IF d.amount.kind = "nan" \/ d.amount.value <= 0 THEN "invalid amount"
  ELSE IF d.amount.value > MAX_WITHDRAWAL_AMOUNT THEN "exceeds maximum"
  ELSE "record"

\* No page: queryEvents has not resolved in this poll.
NoPage == [data |-> <<>>, hasNextPage |-> FALSE, nextCursor |-> 0]

\* The loop before its first checkForEvents call.  pc "waiting": a call of
\* checkForEvents is scheduled after delay ms (0: called directly).  fetch is
\* how the poll's queryEvents ended.  started lists the ids handed to
\* processWithdrawEvent since the process started, in order, again holds
\* those handed to it more than once, and since counts
\* the polls since the process started; polls and crashes count the polls
\* and the process crashes of the run.  timers counts the calls of
\* checkForEvents that are due: the direct call of startListenerLoop and
\* the timers set and not yet fired.
IdleListener ==
  [ pc |-> "waiting", delay |-> 0, timers |-> 1,
    processedEvents |-> <<>>,
    currentIntervalMs |-> baseIntervalMs,
    consecutiveFailures |-> 0,
    consecutiveEmptyPolls |-> 0,
    storedCursor |-> 0,
    fetch |-> "none",
    page |-> NoPage,
    withdrawEvents |-> <<>>,
    i |-> 0,
    pending |-> {},
    started |-> <<>>,
    again |-> {},
    since |-> 0,
    polls |-> 0,
    crashes |-> 0 ]

\* The node holds no event and serves pages of up to QUERY_LIMIT events.
NoFeed == [data |-> <<>>, pageSize |-> QUERY_LIMIT]

ListenerIdle ==
  /\ feed = NoFeed
  /\ cursorRows = <<>>
  /\ listener = IdleListener

InitWith(o) ==
  /\ store = <<>>
  /\ calls = [c \in Calls |-> IdleCall]
  /\ cycles = [k \in Cycles |-> IdleCycle]
  /\ lastRet = NoRet
  /\ acks = <<>>
  /\ observed = o
  /\ lastIter = NoIter
  /\ WalletLoaded(<<>>)
  /\ DepositsIdle
  /\ ListenerIdle

Init == InitWith(FALSE)

InitObserved == InitWith(TRUE)

ThrownRet(call) ==
  [NoRet EXCEPT !.op = call.op, !.txId = call.txId, !.kind = "error"]

\* Call slots are used in order (the slots are interchangeable).
CanStart(c) ==
  /\ calls[c].pc = "idle"
  /\ IF c = 1 THEN TRUE ELSE calls[c - 1].pc # "idle"

----------------------------------------------------------------------------
(* recordWithdrawalEvent                                                   *)

\* Transaction.findOne({'data.eventId': eventId, type: 'withdrawal'}): the
\* first matching document in insertion order, 0 when there is none.
FindOneByEventId(e) ==
  LET m == {i \in Ids : store[i].type = "withdrawal" /\ store[i].eventId = e}
  IN IF m = {} THEN 0 ELSE CHOOSE i \in m : \A j \in m : i <= j

\* A variant that reports every recorded event as still processing.
ExistingResultStale(i, doc) ==
  [NoRet EXCEPT !.op = "record", !.txId = i, !.kind = "existing",
                !.status = "processing",
                !.bitcoinTxHash = doc.bitcoinWithdrawalTxHash]

\* The object returned for an already recorded event.
ExistingResult(i, doc) ==
  [NoRet EXCEPT !.op = "record", !.txId = i, !.kind = "existing",
                !.status = doc.status,
                !.bitcoinTxHash = doc.bitcoinWithdrawalTxHash]

\* findOne resolved with document i: return its state.
RecordExisting(c, e, i) ==
  /\ i # 0
  /\ calls' = [calls EXCEPT ![c] = Finished]
  /\ lastRet' = ExistingResult(i, store[i])
  /\ UNCHANGED <<store, acks>>

\* findOne resolved with null: construct the document and await its save.
RecordNew(c, e, i) ==
  /\ i = 0
  /\ calls' = [calls EXCEPT ![c] =
       [IdleCall EXCEPT !.op = "record", !.pc = "insert", !.eventId = e,
                        !.payload = Payload(e)]]
  /\ UNCHANGED <<store, lastRet, acks>>

\* A call with an event id: entry, findOne resolves.
RecordFind(c) ==
  /\ CanStart(c)
  /\ \E e \in EventIds :
       \/ RecordExisting(c, e, FindOneByEventId(e))
       \/ RecordNew(c, e, FindOneByEventId(e))
  /\ UNCHANGED <<cycles, observed, lastIter, others>>

\* transaction.save() resolved: the document is stored; attestWithdrawal is
\* entered and awaits its session and findById.
RecordInsert(c) ==
  /\ calls[c].pc = "insert"
  /\ store' = Append(store, NewTransaction(calls[c].eventId, calls[c].payload))
  /\ acks' = Append(acks, 0)
  /\ calls' = [calls EXCEPT ![c] =
       [IdleCall EXCEPT !.op = "record", !.pc = "attest_read",
                        !.txId = Len(store) + 1]]
  /\ UNCHANGED <<cycles, lastRet, observed, lastIter, others>>

\* findOne (at entry) or save rejected: the catch rethrows, nothing was written.
RecordThrow(c) ==
  /\ \/ CanStart(c)
     \/ calls[c].pc = "insert"
  /\ calls' = [calls EXCEPT ![c] = Finished]
  /\ lastRet' = ThrownRet([calls[c] EXCEPT !.op = "record"])
  /\ UNCHANGED <<store, cycles, acks, observed, lastIter, others>>

----------------------------------------------------------------------------
(* attestWithdrawal                                                        *)

\* The state object attestWithdrawal returns from document fields.
AttestResult(call, kind, doc) ==
  [NoRet EXCEPT !.op = call.op, !.txId = call.txId, !.kind = kind,
                !.retry = call.retry,
                !.status = doc.status,
                !.attestations = doc.withdrawalAttestations,
                !.thresholdReached = doc.withdrawalThresholdReached,
                !.bitcoinTxHash = doc.bitcoinWithdrawalTxHash]

\* A variant whose threshold check is strict (> for >=).
AttestedStrict(doc) ==
  [doc EXCEPT
     !.withdrawalAttestations = doc.withdrawalAttestations + 1,
     !.withdrawalThresholdReached =
        IF doc.withdrawalAttestations + 1 > WITHDRAWAL_ATTESTATION_THRESHOLD
        THEN TRUE ELSE doc.withdrawalThresholdReached]

\* The increment and the threshold check on the in-memory document.
Attested(doc) ==
  [doc EXCEPT
     !.withdrawalAttestations = doc.withdrawalAttestations + 1,
     !.withdrawalThresholdReached =
        IF doc.withdrawalAttestations + 1 >= WITHDRAWAL_ATTESTATION_THRESHOLD
        THEN TRUE ELSE doc.withdrawalThresholdReached]

\* A variant without the already-resolved guard.
NeverResolved(doc) == FALSE

\* Whether the already-resolved guard applies to the document read.
AlreadyResolved(doc) == doc.status # "processing"

\* A direct call of the exported attestWithdrawal with id i, awaiting its
\* session and findById.  A caller whose attestation of i threw calls again.
DirectCall(i) ==
  [IdleCall EXCEPT !.op = "attest", !.pc = "attest_read", !.txId = i,
                   !.retry = (i # 0 /\ lastRet.kind = "error" /\ lastRet.txId = i)]

\* The calls that can await findById in slot c: the call recordWithdrawalEvent
\* makes for the document it stored, or a direct call, with the id of a
\* stored document or with an id (0) that matches none.
ReadingCalls(c) ==
  IF calls[c].pc = "attest_read" THEN {calls[c]}
  ELSE IF CanStart(c) THEN {DirectCall(i) : i \in 0..Len(store)}
  ELSE {}

\* findById resolved with no document, or with one that is no withdrawal.
AttestReject(c) ==
  /\ \E call \in ReadingCalls(c) :
       /\ IF call.txId \in Ids
          THEN store[call.txId].type # "withdrawal"
          ELSE TRUE
       /\ lastRet' = ThrownRet(call)
  /\ calls' = [calls EXCEPT ![c] = Finished]
  /\ UNCHANGED <<store, cycles, acks, observed, lastIter, others>>

\* The document is not processing: return its state.
AttestNoop(c) ==
  /\ \E call \in ReadingCalls(c) :
       /\ call.txId \in Ids
       /\ store[call.txId].type = "withdrawal"
       /\ AlreadyResolved(store[call.txId])
       /\ lastRet' = AttestResult(call, "noop", store[call.txId])
  /\ calls' = [calls EXCEPT ![c] = Finished]
  /\ UNCHANGED <<store, cycles, acks, observed, lastIter, others>>

\* The document is processing: increment in memory, await save({session}).
AttestRead(c) ==
  /\ \E call \in ReadingCalls(c) :
       /\ call.txId \in Ids
       /\ store[call.txId].type = "withdrawal"
       /\ ~AlreadyResolved(store[call.txId])
       /\ calls' = [calls EXCEPT ![c] =
            [call EXCEPT !.pc = "attest_save", !.snap = store[call.txId]]]
  /\ UNCHANGED <<store, cycles, lastRet, acks, observed, lastIter, others>>

\* A variant without sessions: no write is ever refused.
NoWriteConflict(snap, doc) == FALSE

\* The storage engine's write conflict for a transaction's write to a
\* document: the document was written to after the transaction's snapshot
\* (every write of this program to a document changes it).
WriteConflict(snap, doc) == doc # snap

\* The document after the transaction's write is applied: save({session})
\* sets the modified paths of the in-memory document.
Committed(doc, snap) ==
  [doc EXCEPT
     !.withdrawalAttestations = Attested(snap).withdrawalAttestations,
     !.withdrawalThresholdReached = Attested(snap).withdrawalThresholdReached]

\* save({session}) and commitTransaction resolved (the write is invisible to
\* every other reader until the commit, so the two awaits are one step):
\* the write becomes visible; return the state.
AttestCommit(c) ==
  /\ calls[c].pc = "attest_save"
  /\ ~WriteConflict(calls[c].snap, store[calls[c].txId])
  /\ store' = [store EXCEPT ![calls[c].txId] = Committed(@, calls[c].snap)]
  /\ acks' = [acks EXCEPT ![calls[c].txId] = @ + 1]
  /\ calls' = [calls EXCEPT ![c] = Finished]
  /\ lastRet' = AttestResult(calls[c], "updated", Attested(calls[c].snap))
  /\ UNCHANGED <<cycles, observed, lastIter, others>>

\* A variant whose catch block does not abort: the write stays.
AbortedKept(doc, snap) == Committed(doc, snap)

\* What abortTransaction (the catch block) leaves of the document for a
\* transaction whose write was not committed: the write is discarded.
Aborted(doc, snap) == doc

\* startSession, findById, save (a write conflict included) or
\* commitTransaction rejected: abortTransaction, rethrow.
AttestThrow(c) ==
  /\ \/ /\ calls[c].pc = "attest_save"
        /\ store' = [store EXCEPT ![calls[c].txId] = Aborted(@, calls[c].snap)]
        /\ lastRet' = ThrownRet(calls[c])
     \/ /\ \E call \in ReadingCalls(c) : lastRet' = ThrownRet(call)
        /\ store' = store
  /\ calls' = [calls EXCEPT ![c] = Finished]
  /\ UNCHANGED <<cycles, acks, observed, lastIter, others>>

----------------------------------------------------------------------------
(* setupWithdrawalListener: processPendingWithdrawals                      *)

\* The filter of Transaction.find in processPendingWithdrawals.
Pending(doc) ==
  /\ doc.type = "withdrawal"
  /\ doc.status = "processing"
  /\ doc.withdrawalThresholdReached
  /\ doc.bitcoinWithdrawalTxHash = 0

\* The ids in s, ascending.
RECURSIVE Ascending(_)
Ascending(s) ==
  IF s = {} THEN <<>>
  ELSE LET m == CHOOSE i \in s : \A j \in s : i <= j
       IN <<m>> \o Ascending(s \ {m})

\* The documents find resolves with, in insertion order.
PendingWithdrawals == Ascending({i \in Ids : Pending(store[i])})

\* The required-information check of the loop body.
MissingInfo(doc) == doc.bitcoinAddress = "" \/ doc.withdrawalAmount = 0

\* The id of a transaction just broadcast, as the document will hold it.
FreshHash(doc) == doc.bitcoinWithdrawalTxHash + 1

\* The in-memory document after the loop body's assignments, given whether
\* processWithdrawalToBitcoin resolved with a hash.  The keys are the
\* modified paths a save writes.
Assigned(doc, sent) ==
  IF MissingInfo(doc)
  THEN [status |-> "failed", error |-> "Missing required withdrawal information"]
  ELSE IF sent
  THEN [status |-> "completed", bitcoinWithdrawalTxHash |-> FreshHash(doc),
        processedAt |-> TRUE]
  ELSE [status |-> "failed", error |-> "Failed to process Bitcoin withdrawal"]

\* The in-memory document after the inner catch block's assignments.
Caught(delta) ==
  [p \in DOMAIN delta \cup {"status", "error"} |->
     IF p = "status" THEN "failed"
     ELSE IF p = "error" THEN "Error processing withdrawal"
     ELSE delta[p]]

\* withdrawal.save(): the stored document with the modified paths set.
Saved(doc, delta) ==
  [p \in DOMAIN doc |-> IF p \in DOMAIN delta THEN delta[p] ELSE doc[p]]

\* The loop continues with the selection sel, or the run ends.
Loop(sel) == [pc |-> IF sel = <<>> THEN "done" ELSE "loop", sel |-> sel]

\* Cycle slots are used in order: the startup run, then the interval runs.
\* A run starts whether or not an earlier one has finished (setInterval).
CanRun(k) ==
  /\ cycles[k].pc = "idle"
  /\ IF k = 1 THEN TRUE ELSE cycles[k - 1].pc # "idle"

\* A run: entry, find resolves.
CycleFind(k) ==
  /\ CanRun(k)
  /\ cycles' = [cycles EXCEPT ![k] = Loop(PendingWithdrawals)]
  /\ UNCHANGED <<store, calls, lastRet, acks, observed, lastIter, others>>

\* find rejected: the outer catch logs, the run ends.
CycleFindThrow(k) ==
  /\ CanRun(k)
  /\ cycles' = [cycles EXCEPT ![k] = Loop(<<>>)]
  /\ UNCHANGED <<store, calls, lastRet, acks, observed, lastIter, others>>

\* What processWithdrawalToBitcoin can resolve with for a document: it is
\* not called for one that lacks the required information.
SendResults(doc) == IF MissingInfo(doc) THEN {FALSE} ELSE BOOLEAN

\* The record of an iteration, kept where the specification observes it.
Iter(k, i, sent, rejected) ==
  IF observed
  THEN [cycle |-> k, txId |-> i, sent |-> sent, rejected |-> rejected]
  ELSE NoIter

\* One loop iteration whose save resolved.  The iteration's awaits
\* (processWithdrawalToBitcoin, save) touch no state of this model before
\* the save's write, so the iteration is one step, taken at that write.
ProcessSaved(k) ==
  /\ cycles[k].pc = "loop"
  /\ LET i == Head(cycles[k].sel)
     IN \E sent \in SendResults(store[i]) :
          /\ store' = [store EXCEPT ![i] = Saved(@, Assigned(@, sent))]
          /\ lastIter' = Iter(k, i, sent, 0)
  /\ cycles' = [cycles EXCEPT ![k] = Loop(Tail(cycles[k].sel))]
  /\ UNCHANGED <<calls, lastRet, acks, observed, others>>

\* One loop iteration whose save rejected and whose save in the inner catch
\* block resolved.
ProcessCaught(k) ==
  /\ cycles[k].pc = "loop"
  /\ LET i == Head(cycles[k].sel)
     IN \E sent \in SendResults(store[i]) :
          /\ store' = [store EXCEPT ![i] = Saved(@, Caught(Assigned(@, sent)))]
          /\ lastIter' = Iter(k, i, sent, 1)
  /\ cycles' = [cycles EXCEPT ![k] = Loop(Tail(cycles[k].sel))]
  /\ UNCHANGED <<calls, lastRet, acks, observed, others>>

\* What is left of the run's selection when the save in the inner catch
\* block rejects: the rejection leaves the loop for the outer catch.
Escaped(sel) == <<>>

\* One loop iteration whose save and whose save in the catch block rejected.
ProcessThrow(k) ==
  /\ cycles[k].pc = "loop"
  /\ LET i == Head(cycles[k].sel)
     IN \E sent \in SendResults(store[i]) : lastIter' = Iter(k, i, sent, 2)
  /\ cycles' = [cycles EXCEPT ![k] = Loop(Escaped(Tail(cycles[k].sel)))]
  /\ UNCHANGED <<store, calls, lastRet, acks, observed, others>>

CallNext(c) ==
  \/ RecordFind(c)
  \/ RecordInsert(c)
  \/ RecordThrow(c)
  \/ AttestReject(c)
  \/ AttestNoop(c)
  \/ AttestRead(c)
  \/ AttestCommit(c)
  \/ AttestThrow(c)

CycleNext(k) ==
  \/ CycleFind(k)
  \/ CycleFindThrow(k)
  \/ ProcessSaved(k)
  \/ ProcessCaught(k)
  \/ ProcessThrow(k)

Next ==
  \/ \E c \in Calls : CallNext(c)
  \/ \E k \in Cycles : CycleNext(k)

Spec == Init /\ [][Next]_vars

\* The same program, with the payout iterations observed.
SpecObserved == InitObserved /\ [][Next]_vars

----------------------------------------------------------------------------
(* The wallet's operations.  A payout run of this part is find resolving   *)
(* and the loop body for the first document selected: the call of          *)
(* processWithdrawalToBitcoin and the save of what it resolved with; its   *)
(* store writes resolve (their rejections are in Spec).                    *)

withdrawalVars == <<store, calls, cycles, lastRet, acks, observed, lastIter>>

\* Wallet call slots are used in order.
CanUse(w) ==
  /\ sends[w].pc = "idle"
  /\ IF w = 1 THEN TRUE ELSE sends[w - 1].pc # "idle"

\* A call of processWithdrawalToBitcoin that returned hash (0: null): its
\* locals are gone.
Returned(call, hash) ==
  [IdleSend EXCEPT !.op = call.op, !.pc = "returned", !.txId = call.txId,
                   !.result = hash]

\* A call whose caller has gone on.
DoneSend == [IdleSend EXCEPT !.pc = "done"]

\* A step of a wallet call: the call continues as next, or it fails and
\* logs msg.
Step == [next : {IdleSend}, msg : {""}]

Goes(next) == [next |-> next, msg |-> ""]

\* processWithdrawalToBitcoin returns null, having logged msg.
ReturnedNull(call, msg) == [next |-> Returned(call, 0), msg |-> msg]

\* sendBitcoinTransaction throws: its catch logs and rethrows, and the catch
\* of processWithdrawalToBitcoin, when that is the caller, returns null.
SendThrew(call, msg) ==
  IF call.op = "withdraw" THEN ReturnedNull(call, msg)
  ELSE [next |-> DoneSend, msg |-> msg]

\* sendBitcoinTransaction up to the fee request of estimateFeeRate.
SendEntry(call) ==
  IF call.to = "" THEN SendThrew(call, "Destination address is required")
  ELSE IF call.amount <= 0 THEN SendThrew(call, "Amount must be greater than 0")
  ELSE Goes([call EXCEPT !.pc = "fee", !.net = TRUE])

\* The cache test of getUtxos(false).
CacheFresh == cachedUtxos # {} /\ now - lastUtxoFetch < UTXO_CACHE_TTL

\* A balance check that always passes.
AfterBalancePasses(call, utxos) ==
  SendEntry([call EXCEPT !.checked = TRUE, !.resp = {}])

\* checkSufficientBitcoinBalance given the outputs getUtxos resolved with,
\* and what processWithdrawalToBitcoin does with its result.
AfterBalance(call, utxos) ==
  IF TotalValue(utxos) >= MinimumRequired(call.amount)
  THEN SendEntry([call EXCEPT !.checked = TRUE, !.resp = {}])
  ELSE ReturnedNull(call, "Insufficient Bitcoin balance")

\* processWithdrawalToBitcoin up to its first network request: the address
\* and amount checks, then getUtxos(false) of the balance check.
WithdrawEntry(call) ==
  IF ~validateBitcoinAddress(call.to)
  THEN ReturnedNull(call, "Invalid Bitcoin address format")
  ELSE IF call.amount < MIN_WITHDRAWAL
  THEN ReturnedNull(call, "Withdrawal amount too small")
  ELSE IF call.amount > MAX_WITHDRAWAL
  THEN ReturnedNull(call, "Withdrawal amount too large")
  ELSE IF CacheFresh THEN AfterBalance(call, cachedUtxos)
  ELSE Goes([call EXCEPT !.pc = "bal_list", !.net = TRUE, !.fetchedAt = now])

\* sendBitcoinTransaction from the outputs getUtxos(true) resolved with to
\* the broadcast request: selection, balance check, build and sign.  built
\* tells whether bitcoinjs builds and signs the transaction (whether the
\* configured network has a script for the address, whether signing throws).
AfterUtxos(call, utxos, built) ==
  IF utxos = {} THEN SendThrew(call, "No UTXOs available")
  ELSE IF Insufficient(SelectedUtxos(utxos, call.amount, call.feeRate),
                       call.amount, call.feeRate)
  THEN SendThrew(call, "Insufficient balance")
  ELSE IF ~(WellFormed(call.to) /\ built)
  THEN SendThrew(call, "Transaction not built")
  ELSE Goes([call EXCEPT
               !.pc = "broadcast", !.resp = utxos,
               !.tx = BuiltTx(SelectedUtxos(utxos, call.amount, call.feeRate),
                              call.to, call.amount, call.feeRate)])

\* Call w takes step: the error, if any, is logged.
Takes(w, step) ==
  /\ sends' = [sends EXCEPT ![w] = step.next]
  /\ walletLog' = IF step.msg = "" THEN walletLog ELSE step.msg

\* A payout run: find resolved, and the loop calls
\* processWithdrawalToBitcoin for the first document selected.
PayoutCall(w) ==
  /\ CanUse(w)
  /\ PendingWithdrawals # <<>>
  /\ LET doc == store[Head(PendingWithdrawals)]
     IN /\ ~MissingInfo(doc)
        /\ Takes(w, WithdrawEntry([IdleSend EXCEPT
                                     !.op = "withdraw",
                                     !.txId = Head(PendingWithdrawals),
                                     !.to = doc.bitcoinAddress,
                                     !.amount = doc.withdrawalAmount]))
  /\ UNCHANGED <<withdrawalVars, depositVars, listenerVars>>
  /\ UNCHANGED <<chain, cachedUtxos, lastUtxoFetch, now, broadcasts>>

\* processWithdrawalToBitcoin resolved: the loop body assigns and saves.
PayoutSave(w) ==
  /\ sends[w].op = "withdraw"
  /\ sends[w].pc = "returned"
  /\ store' = [store EXCEPT ![sends[w].txId] =
       Saved(@, Assigned(@, sends[w].result # 0))]
  /\ sends' = [sends EXCEPT ![w] = DoneSend]
  /\ UNCHANGED <<calls, cycles, lastRet, acks, observed, lastIter, depositVars,
               listenerVars>>
  /\ UNCHANGED <<chain, cachedUtxos, lastUtxoFetch, now, broadcasts, walletLog>>

\* A direct call of sendBitcoinTransaction.
DirectSend(w) ==
  /\ CanUse(w)
  /\ \E a \in Addresses, m \in Amounts \ {600000} :
       Takes(w, SendEntry([IdleSend EXCEPT !.op = "send", !.to = a, !.amount = m]))
  /\ UNCHANGED <<withdrawalVars, depositVars, listenerVars>>
  /\ UNCHANGED <<chain, cachedUtxos, lastUtxoFetch, now, broadcasts>>

\* estimateFeeRate resolved, with a rate from the fee API or, the request
\* having failed, with the fallback rate; getUtxos(true) sends its list
\* request.
FeeResolved(w) ==
  /\ sends[w].pc = "fee"
  /\ \E r \in FeeRates \cup {FALLBACK_FEE_RATE} :
       sends' = [sends EXCEPT ![w] =
         [@ EXCEPT !.feeRate = r, !.fetchedAt = now, !.pc = "list"]]
  /\ UNCHANGED <<withdrawalVars, depositVars, listenerVars>>
  /\ UNCHANGED <<chain, cachedUtxos, lastUtxoFetch, now, broadcasts, walletLog>>

\* getUtxos: the explorer answered the list request with the outputs
\* unspent at this moment; the transaction of each output is requested.
UtxoListed(w) ==
  /\ sends[w].pc \in {"bal_list", "list"}
  /\ sends' = [sends EXCEPT ![w] =
       [@ EXCEPT !.resp = chain,
                 !.pc = IF @ = "bal_list" THEN "bal_detail" ELSE "detail"]]
  /\ UNCHANGED <<withdrawalVars, depositVars, listenerVars>>
  /\ UNCHANGED <<chain, cachedUtxos, lastUtxoFetch, now, broadcasts, walletLog>>

\* getUtxos: the transaction requests resolved; the cache is set and the
\* caller continues with the outputs.
UtxoDetailed(w) ==
  /\ sends[w].pc \in {"bal_detail", "detail"}
  /\ cachedUtxos' = sends[w].resp
  /\ lastUtxoFetch' = sends[w].fetchedAt
  /\ IF sends[w].pc = "bal_detail"
     THEN Takes(w, AfterBalance(sends[w], sends[w].resp))
     ELSE \E built \in BOOLEAN : Takes(w, AfterUtxos(sends[w], sends[w].resp, built))
  /\ UNCHANGED <<withdrawalVars, depositVars, listenerVars>>
  /\ UNCHANGED <<chain, now, broadcasts>>

\* getUtxos: a request rejected.  The catch returns the cached outputs when
\* there are any and rethrows otherwise; checkSufficientBitcoinBalance
\* turns the rethrown error into false.
UtxoFetchFailed(w) ==
  /\ sends[w].pc \in {"bal_list", "bal_detail", "list", "detail"}
  /\ IF sends[w].pc \in {"bal_list", "bal_detail"}
     THEN Takes(w, IF cachedUtxos # {} THEN AfterBalance(sends[w], cachedUtxos)
                   ELSE ReturnedNull(sends[w], "Error checking Bitcoin balance"))
     ELSE \E built \in BOOLEAN :
            Takes(w, IF cachedUtxos # {} THEN AfterUtxos(sends[w], cachedUtxos, built)
                     ELSE SendThrew(sends[w], "Error fetching UTXOs"))
  /\ UNCHANGED <<withdrawalVars, depositVars, listenerVars>>
  /\ UNCHANGED <<chain, cachedUtxos, lastUtxoFetch, now, broadcasts>>

\* The network accepted the transaction (its inputs are unspent): the
\* inputs are spent, the cache is invalidated, the hash is returned.  The
\* hash is the number of the broadcast.
BroadcastAccepted(w) ==
  /\ sends[w].pc = "broadcast"
  /\ Range(sends[w].tx.inputs) \subseteq chain
  /\ chain' = chain \ Range(sends[w].tx.inputs)
  /\ broadcasts' = Append(broadcasts, sends[w].tx)
  /\ cachedUtxos' = {}
  /\ lastUtxoFetch' = 0
  /\ sends' = [sends EXCEPT ![w] =
       IF @.op = "withdraw" THEN Returned(@, Len(broadcasts) + 1) ELSE DoneSend]
  /\ UNCHANGED <<withdrawalVars, depositVars, listenerVars, now, walletLog>>

\* The broadcast request rejected (the network refused the transaction, or
\* the request failed).
BroadcastRejected(w) ==
  /\ sends[w].pc = "broadcast"
  /\ Takes(w, SendThrew(sends[w], "Broadcast failed"))
  /\ UNCHANGED <<withdrawalVars, depositVars, listenerVars>>
  /\ UNCHANGED <<chain, cachedUtxos, lastUtxoFetch, now, broadcasts>>

\* Time passes: the cached outputs reach their time to live.
Tick ==
  /\ CacheFresh
  /\ now' = now + UTXO_CACHE_TTL
  /\ UNCHANGED <<withdrawalVars, depositVars, listenerVars>>
  /\ UNCHANGED <<chain, cachedUtxos, lastUtxoFetch, sends, broadcasts, walletLog>>

\* A withdrawal recorded and attested, to address a for amount m, and the
\* wallet loaded with funds f.
InitWallet ==
  \E f \in Funds, a \in Addresses \ {"", "not-an-address"}, m \in Amounts \ {0} :
    /\ store = <<Attested(NewTransaction("evt-42",
                            [bitcoinAddress |-> a, amount |-> m]))>>
    /\ acks = <<1>>
    /\ calls = [c \in Calls |-> IdleCall]
    /\ cycles = [k \in Cycles |-> IdleCycle]
    /\ lastRet = NoRet
    /\ observed = FALSE
    /\ lastIter = NoIter
    /\ WalletLoaded(f)
    /\ DepositsIdle
    /\ ListenerIdle

SendNext(w) ==
  \/ PayoutCall(w)
  \/ PayoutSave(w)
  \/ DirectSend(w)
  \/ FeeResolved(w)
  \/ UtxoListed(w)
  \/ UtxoDetailed(w)
  \/ UtxoFetchFailed(w)
  \/ BroadcastAccepted(w)
  \/ BroadcastRejected(w)

NextWallet ==
  \/ \E w \in Sends : SendNext(w)
  \/ Tick

SpecWallet == InitWallet /\ [][NextWallet]_vars

\* No wallet call is in progress.
Quiet == \A v \in Sends : sends[v].pc \in {"idle", "done"}

\* The wallet's operations when no two calls overlap: a call begins when
\* the one before it has ended.
SerialNext ==
  \/ \E w \in Sends : (sends[w].pc = "idle" => Quiet) /\ SendNext(w)
  \/ Tick

SpecWalletSerial == InitWallet /\ [][SerialNext]_vars

----------------------------------------------------------------------------
(* Properties                                                              *)

Terminal(doc) == doc.status \in {"completed", "failed"}

\* Call c returned or threw in this step; lastRet' is what it returned.
Finishes(c) == calls[c].pc # "done" /\ calls'[c].pc = "done"

\* C1: recordWithdrawalEvent calls with the same event id, concurrent ones
\* included, leave exactly one record of the event (whose attestation count
\* they therefore incremented at most once): no two stored documents hold
\* the same event id.
C1_OneRecordPerEvent ==
  \A i, j \in Ids : store[i].eventId = store[j].eventId => i = j

\* C2: with the threshold at 1, the recordWithdrawalEvent call that creates
\* the record and is the first to attest it returns (and leaves stored)
\* attestation count 1 and thresholdReached true; a call that finds the event
\* recorded writes nothing (no document created, no field changed) and
\* returns the stored document's current status and hash.
C2_FirstCreatesLaterReturns ==
  [][\A c \in Calls :
       Finishes(c) /\ lastRet'.op = "record" =>
         LET i == lastRet'.txId
         IN /\ lastRet'.kind = "updated" /\ acks'[i] = 1 =>
                 /\ lastRet'.attestations = 1
                 /\ lastRet'.thresholdReached
                 /\ store'[i].withdrawalAttestations = 1
                 /\ store'[i].withdrawalThresholdReached
            /\ lastRet'.kind = "existing" =>
                 /\ store' = store
                 /\ acks' = acks
                 /\ lastRet'.status = store[i].status
                 /\ lastRet'.bitcoinTxHash = store[i].bitcoinWithdrawalTxHash]_vars

\* A call found the event recorded after its record, attested once, was
\* paid out.
C2_Witness ==
  /\ lastRet.kind = "existing"
  /\ lastRet.status = "completed"
  /\ store[lastRet.txId].withdrawalAttestations = 1
  /\ store[lastRet.txId].withdrawalThresholdReached

\* C3: attestWithdrawal is an atomic read-modify-write: each document's
\* stored attestation count equals the number of attestWithdrawal calls for
\* it that returned an update.
C3_CountEqualsSuccessfulCalls ==
  \A i \in Ids : store[i].withdrawalAttestations = acks[i]

\* Two calls attested one document.
C3_Witness ==
  \E i \in Ids :
    /\ acks[i] = 2
    /\ store[i].withdrawalAttestations = 2

\* C4: thresholdReached becomes true in exactly the step in which the count
\* first reaches WITHDRAWAL_ATTESTATION_THRESHOLD, and never becomes false
\* again.
C4_ThresholdLatch ==
  [][\A i \in Ids :
       LET old == store[i]
           new == store'[i]
           reaches ==
             /\ old.withdrawalAttestations < WITHDRAWAL_ATTESTATION_THRESHOLD
             /\ new.withdrawalAttestations >= WITHDRAWAL_ATTESTATION_THRESHOLD
       IN /\ old.withdrawalThresholdReached => new.withdrawalThresholdReached
          /\ (~old.withdrawalThresholdReached /\ new.withdrawalThresholdReached)
               <=> reaches]_vars

\* A document whose flag stayed true through a further attestation.
C4_Witness ==
  \E i \in Ids :
    /\ store[i].withdrawalThresholdReached
    /\ store[i].withdrawalAttestations > WITHDRAWAL_ATTESTATION_THRESHOLD

\* C5: a document's attestation count never decreases and changes only
\* while its status is processing; attestWithdrawal on a completed or failed
\* document modifies nothing and returns the document's current state.
C5_CountOnlyWhileProcessing ==
  [][/\ \A i \in Ids :
          /\ store'[i].withdrawalAttestations >= store[i].withdrawalAttestations
          /\ store'[i].withdrawalAttestations # store[i].withdrawalAttestations
               => store[i].status = "processing"
     /\ \A c \in Calls :
          Finishes(c) /\ lastRet'.kind \in {"noop", "updated"}
                      /\ Terminal(store[lastRet'.txId]) =>
            /\ store' = store
            /\ lastRet' = AttestResult(lastRet', "noop", store[lastRet'.txId])]_vars

\* attestWithdrawal returned the state of a failed document.
C5_Witness ==
  /\ lastRet.kind = "noop"
  /\ lastRet.status = "failed"
  /\ store[lastRet.txId].withdrawalAttestations = lastRet.attestations

\* C6: completed and failed are terminal: no operation, overlapping payout
\* cycles included, changes the status of a completed or failed document.
C6_TerminalNeverReverts ==
  [][\A i \in Ids :
       Terminal(store[i]) => store'[i].status = store[i].status]_vars

\* C7: bitcoinWithdrawalTxHash is written at most once per document, and
\* only to a document whose thresholdReached is already true.
C7_HashWrittenOnce ==
  [][\A i \in Ids :
       store'[i].bitcoinWithdrawalTxHash # store[i].bitcoinWithdrawalTxHash =>
         /\ store[i].bitcoinWithdrawalTxHash = 0
         /\ store[i].withdrawalThresholdReached]_vars

\* C8: when attestWithdrawal throws, at any of its steps, no stored document
\* is changed (neither an attestation count nor a thresholdReached flag),
\* and the call's increment is not counted: a later retry finds the document
\* as it was.
C8_ThrowLeavesNoTrace ==
  [][\A c \in Calls :
       Finishes(c) /\ lastRet'.kind = "error" =>
         /\ store' = store
         /\ acks' = acks]_vars

\* A retry, made after attestWithdrawal threw for the document, returned an
\* update that counts the retry alone.
C8_Witness ==
  /\ lastRet.kind = "updated"
  /\ lastRet.retry
  /\ lastRet.attestations = acks[lastRet.txId]
  /\ store[lastRet.txId].withdrawalAttestations = lastRet.attestations

\* Cycle k ended an iteration, for the document at the head of its
\* selection, in this step.
Iterates(k) == cycles[k].pc = "loop" /\ cycles'[k] # cycles[k]

\* C9: a payout iteration for a selected document that has an address and
\* an amount leaves it completed, with the hash and processedAt, when the
\* send resolved with a hash, and failed, with an error, when it did not;
\* either way a later cycle does not select the document.
C9_IterationOutcome ==
  [][\A k \in Cycles :
       Iterates(k) /\ ~MissingInfo(store[Head(cycles[k].sel)]) =>
         LET new == store'[Head(cycles[k].sel)]
         IN /\ lastIter'.sent =>
                 /\ new.status = "completed"
                 /\ new.bitcoinWithdrawalTxHash # 0
                 /\ new.processedAt
            /\ ~lastIter'.sent =>
                 /\ new.status = "failed"
                 /\ new.error # ""
            /\ ~Pending(new)]_vars

\* C10: a failure in the iteration for one document (a failed send, an
\* exception, a rejected store write) does not keep the cycle from the
\* remaining selected documents: a cycle ends only with the iteration for
\* the last document it selected.
C10_FailureSkipsNoRecord ==
  [][\A k \in Cycles :
       Iterates(k) /\ cycles'[k].pc = "done" => Len(cycles[k].sel) = 1]_vars

(***************************************************************************)
(* Properties of the wallet                                                *)
(***************************************************************************)

\* Every output the wallet has had: the unspent ones and those spent by a
\* transaction the network accepted.
Funded == chain \cup UNION {Range(broadcasts[n].inputs) : n \in 1..Len(broadcasts)}

\* The payout run of call w saves, in this step, what
\* processWithdrawalToBitcoin resolved with.
Saves(w) == sends[w].pc = "returned" /\ sends'[w].pc = "done"

\* C11: when the outputs of the wallet total less than the amount of a
\* withdrawal (500,000 against 600,000), the payout processor marks the
\* record failed with an insufficient-balance error, and no transaction is
\* broadcast for it.
C11_InsufficientFundsRecorded ==
  [][\A w \in Sends :
       Saves(w) /\ TotalValue(Funded) < store[sends[w].txId].withdrawalAmount =>
         /\ store'[sends[w].txId].status = "failed"
         /\ store'[sends[w].txId].error = "Insufficient Bitcoin balance"
         /\ broadcasts = <<>>]_vars

\* Call w has built and signed a transaction and awaits the broadcast.
Builds(w) == sends[w].pc = "broadcast"

\* The total value of the inputs of transaction tx.
InputTotal(tx) == TotalValue(Range(tx.inputs))

\* The fee estimated for a transaction of n inputs at rate feeRate.
FeeOf(n, feeRate) == (n * INPUT_BYTES + 2 * OUTPUT_BYTES + OVERHEAD_BYTES) * feeRate

\* The inputs of tx are the first outputs of utxos in ascending order of
\* value.
AscendingPrefix(tx, utxos) ==
  /\ Range(tx.inputs) \subseteq utxos
  /\ \A i, j \in 1..Len(tx.inputs) : i < j => tx.inputs[i].value <= tx.inputs[j].value
  /\ \A u \in utxos \ Range(tx.inputs) :
       \A i \in 1..Len(tx.inputs) : tx.inputs[i].value <= u.value

\* Without the input added last, tx falls short of the amount, the fee
\* estimated for the inputs that remain and the buffer.
LastInputNeeded(tx) ==
  Len(tx.inputs) > 1 =>
    InputTotal(tx) - tx.inputs[Len(tx.inputs)].value
      < tx.amount + FeeOf(Len(tx.inputs) - 1, tx.feeRate) + SAFETY_BUFFER

\* C12 as stated: whenever sendBitcoinTransaction builds a transaction, the
\* inputs total at least amount + estimated fee + 1000, without the input
\* added last they fall below the bound, and they are a prefix of the
\* outputs sorted ascending by value.
C12_SelectionCoversBuffer ==
  \A w \in Sends :
    Builds(w) =>
      LET tx == sends[w].tx
      IN /\ InputTotal(tx) >= tx.amount + FeeOf(Len(tx.inputs), tx.feeRate) + SAFETY_BUFFER
         /\ LastInputNeeded(tx)
         /\ AscendingPrefix(tx, sends[w].resp)

\* C12 (amended): whenever sendBitcoinTransaction builds a transaction, the
\* inputs are a prefix of the outputs sorted ascending by value and total at
\* least amount + estimated fee; they total at least amount + estimated fee
\* + 1000 unless every output was selected; and without the input added
\* last they fall below the amount, the fee estimated without it and 1000.
C12_SelectionStopsAtBuffer ==
  \A w \in Sends :
    Builds(w) =>
      LET tx == sends[w].tx
      IN /\ InputTotal(tx) >= tx.amount + FeeOf(Len(tx.inputs), tx.feeRate)
         /\ \/ InputTotal(tx) >= tx.amount + FeeOf(Len(tx.inputs), tx.feeRate) + SAFETY_BUFFER
            \/ Range(tx.inputs) = sends[w].resp
         /\ LastInputNeeded(tx)
         /\ AscendingPrefix(tx, sends[w].resp)

\* A transaction is built from every output, two of them, without reaching
\* the buffer.
C12_Witness ==
  \E w \in Sends :
    /\ Builds(w)
    /\ Len(sends[w].tx.inputs) = 2
    /\ InputTotal(sends[w].tx) <
         sends[w].tx.amount + FeeOf(2, sends[w].tx.feeRate) + SAFETY_BUFFER

\* getUtxos(true) of call w resolves in this step, and sendBitcoinTransaction
\* runs on to its next await or to its end.  The outputs getUtxos resolved
\* with are the cache after the step: the cache it has just set, or, a
\* request having failed, the cache it fell back to.
Selects(w) == sends[w].pc \in {"list", "detail"} /\ sends'[w].pc \notin {"list", "detail"}

\* The outputs call w selects in this step total less than amount + fee.
FallsShort(w) ==
  /\ Selects(w)
  /\ cachedUtxos' # {}
  /\ LET sel == SelectedUtxos(cachedUtxos', sends[w].amount, sends[w].feeRate)
     IN TotalValue(Range(sel)) < sends[w].amount + FeeOf(Len(sel), sends[w].feeRate)

Remainder(tx) == InputTotal(tx) - tx.amount - FeeOf(Len(tx.inputs), tx.feeRate)

\* What tx pays to the miners: its inputs less its outputs.
PaidFee(tx) == InputTotal(tx) - tx.amount - tx.change

\* C14: a transaction sendBitcoinTransaction builds has a change output,
\* of value R, if and only if the remainder R exceeds 546; at 546 and below
\* it has none, and R is paid as fee.
C14_ChangeIffAboveDust ==
  \A w \in Sends :
    Builds(w) =>
      LET tx == sends[w].tx
      IN /\ tx.change # 0 <=> Remainder(tx) > DUST_THRESHOLD
         /\ tx.change # 0 => tx.change = Remainder(tx)
         /\ tx.change = 0 =>
              PaidFee(tx) = FeeOf(Len(tx.inputs), tx.feeRate) + Remainder(tx)

\* A transaction is built whose remainder is exactly 546: it has no change
\* output.
C14_Witness ==
  \E w \in Sends :
    /\ Builds(w)
    /\ Remainder(sends[w].tx) = DUST_THRESHOLD
    /\ sends[w].tx.change = 0

\* processWithdrawalToBitcoin of call w runs, in this step, from its start
\* or from a response of getUtxos to the call of sendBitcoinTransaction or
\* to its return.  The outputs getWalletBalance summed are the cache after
\* the step: cached outputs still fresh, the cache getUtxos has just set,
\* or the cache it fell back to; with no output cached the check fails.
BalanceSettled(w) ==
  /\ sends[w].pc \in {"idle", "bal_list", "bal_detail"}
  /\ sends'[w].op = "withdraw"
  /\ sends'[w].pc \notin {"bal_list", "bal_detail"}

\* floor(amount * 1.2)
FloorOfAmountTimes12(amount) == (amount * 12) \div 10

\* C15: processWithdrawalToBitcoin calls sendBitcoinTransaction only when
\* the balance check found balance >= floor(amount * 1.2); when the check
\* fails or errors, it returns null and no transaction is built or
\* broadcast.
C15_SendOnlyAfterBalanceCheck ==
  [][\A w \in Sends :
       BalanceSettled(w) =>
         LET balance == TotalValue(cachedUtxos')
             amount == store[sends'[w].txId].withdrawalAmount
         IN /\ sends'[w].pc # "returned" =>
                 /\ balance >= FloorOfAmountTimes12(amount)
                 /\ sends'[w].pc = "fee"
                 /\ sends'[w].checked
            /\ balance < FloorOfAmountTimes12(amount) =>
                 /\ sends'[w].pc = "returned"
                 /\ sends'[w].result = 0
                 /\ sends'[w].tx = NoTx
                 /\ broadcasts' = broadcasts]_vars

\* processWithdrawalToBitcoin has called sendBitcoinTransaction, the
\* balance being sufficient.
C15_Witness ==
  \E w \in Sends :
    /\ sends[w].op = "withdraw"
    /\ sends[w].pc = "fee"
    /\ TotalValue(cachedUtxos) >= FloorOfAmountTimes12(sends[w].amount)

\* The outputs spent by the transactions the network accepted.
Spent == UNION {Range(broadcasts[n].inputs) : n \in 1..Len(broadcasts)}

\* C16: a successful broadcast empties the cache, so that getUtxos never
\* returns from the cache, within the time to live, an output that a
\* broadcast spent: cached outputs that getUtxos would return are unspent.
C16_CacheServesNoSpentOutput == CacheFresh => cachedUtxos \cap Spent = {}

\* C17: for a destination that matches no recognized address format no
\* network request is made (no fee query, no fetch of outputs, no
\* broadcast), through processWithdrawalToBitcoin and through a direct call
\* of sendBitcoinTransaction: a call that has made a request has a
\* destination of a recognized format.
C17_NoRequestForUnrecognizedAddress ==
  \A w \in Sends : sends[w].net => validateBitcoinAddress(sends[w].to)

----------------------------------------------------------------------------
(* processDeposit                                                          *)

\* What processDeposit leaves alone besides the store.
notDeposit ==
  <<calls, cycles, lastRet, observed, lastIter, walletVars, listenerVars>>

\* Call slots are taken in order.
CanDeposit(d) ==
  /\ deposits[d].pc = "idle"
  /\ \A e \in Deposits : e < d => deposits[e].pc # "idle"

\* The call of slot d ends by throwing: the outer catch logs and rethrows.
DepositThrows(d) ==
  /\ deposits' = [deposits EXCEPT ![d] = DoneDeposit]
  /\ depRet' = [NoDepRet EXCEPT !.kind = "threw", !.txId = deposits[d].txId,
                                !.existed = deposits[d].existed]

\* processDeposit is called: the document is constructed and its first
\* save is sent.
DepositCall(d) ==
  /\ CanDeposit(d)
  /\ \E a \in SuiAddresses, h \in TxHashes :
       deposits' = [deposits EXCEPT ![d] =
         [IdleDeposit EXCEPT !.pc = "insert", !.transaction = NewDeposit(a, h),
                             !.existed = a \in collateral]]
  /\ UNCHANGED <<store, acks, collateral, attestations, depRet, notDeposit>>

\* The first save resolved: the document is in the store, and
\* verifyBitcoinTransaction is called.
DepositInserted(d) ==
  /\ deposits[d].pc = "insert"
  /\ store' = Append(store, deposits[d].transaction)
  /\ acks' = Append(acks, 0)
  /\ deposits' = [deposits EXCEPT ![d] =
       [@ EXCEPT !.pc = "verify", !.txId = Len(store) + 1]]
  /\ UNCHANGED <<collateral, attestations, depRet, notDeposit>>

\* The first save rejected.
DepositInsertRejected(d) ==
  /\ deposits[d].pc = "insert"
  /\ DepositThrows(d)
  /\ UNCHANGED <<store, acks, collateral, attestations, notDeposit>>

\* verifyBitcoinTransaction resolved, the explorer having answered r: when
\* it returned false the document is marked failed and its save is sent,
\* otherwise checkCollateralExists is called.
DepositVerified(d) ==
  /\ deposits[d].pc = "verify"
  /\ \E r \in Responses :
       deposits' = [deposits EXCEPT ![d] =
         IF verifyBitcoinTransaction(r)
         THEN [@ EXCEPT !.pc = "check", !.seen = r, !.isVerified = TRUE]
         ELSE [@ EXCEPT !.pc = "fail_save", !.seen = r, !.isVerified = FALSE,
                        !.transaction.status = "failed",
                        !.transaction.error = "Bitcoin transaction verification failed"]]
  /\ UNCHANGED <<store, acks, collateral, attestations, depRet, notDeposit>>

\* checkCollateralExists resolved: with whether the address has a
\* collateral object, or, the lookup having failed, with false.  The
\* create or the attest utility is called.
DepositCollateralChecked(d) ==
  /\ deposits[d].pc = "check"
  /\ \E ok \in BOOLEAN :
       deposits' = [deposits EXCEPT ![d] =
         [@ EXCEPT !.pc = "sui", !.seen = NoResponse,
                   !.collateralExists =
                     ok /\ deposits[d].transaction.suiAddress \in collateral]]
  /\ UNCHANGED <<store, acks, collateral, attestations, depRet, notDeposit>>

\* The document of call after attestToCollateral or createCollateralObject
\* resolved with txHash: collateralCreated is set on both branches, then
\* the document is marked failed or completed and its save is sent.
AfterChain(call, txHash) ==
  IF txHash = 0
  THEN [call EXCEPT !.pc = "fail_save", !.txHash = 0,
                    !.transaction.collateralCreated = TRUE,
                    !.transaction.status = "failed",
                    !.transaction.error = "Failed to process on Sui blockchain"]
  ELSE [call EXCEPT !.pc = "final_save", !.txHash = txHash,
                    !.transaction.collateralCreated = TRUE,
                    !.transaction.status = "completed",
                    !.transaction.hash = txHash,
                    !.transaction.processedAt = TRUE]

\* attestToCollateral or createCollateralObject resolved.  created: the
\* create utility made the collateral object; fetched: the explorer
\* answered getBitcoinTransactionDetails; attested: attestBtcDeposit went
\* through (its digest is the document's number).  When a step throws, the
\* utility catches the error and returns null.
DepositOnChain(d) ==
  /\ deposits[d].pc = "sui"
  /\ \E created, fetched, attested \in BOOLEAN :
       LET call == deposits[d]
           user == call.transaction.suiAddress
           btcTxnHash == call.transaction.bitcoinTxHash
           amount == attestedAmount(Explorer[btcTxnHash])
           went == created /\ fetched /\ amount # RangeError /\ attested
       IN /\ attested => fetched
          /\ fetched => created
          /\ collateral' =
               IF ~call.collateralExists /\ created
               THEN collateral \cup {user}
               ELSE collateral
          /\ attestations' =
               IF went
               THEN Append(attestations,
                      [ user |-> user, btcTxnHash |-> btcTxnHash,
                        amount |-> amount,
                        by |-> IF call.collateralExists
                               THEN "attestToCollateral"
                               ELSE "createCollateralObject" ])
               ELSE attestations
          /\ deposits' = [deposits EXCEPT ![d] =
               AfterChain(@, IF went THEN call.txId ELSE 0)]
  /\ UNCHANGED <<store, acks, depRet, notDeposit>>

\* The save of the failed or of the completed document resolved:
\* processDeposit throws after the first and returns after the second.
DepositSaved(d) ==
  /\ deposits[d].pc \in {"fail_save", "final_save"}
  /\ store' = [store EXCEPT ![deposits[d].txId] = deposits[d].transaction]
  /\ IF deposits[d].pc = "fail_save"
     THEN DepositThrows(d)
     ELSE /\ deposits' = [deposits EXCEPT ![d] = DoneDeposit]
          /\ depRet' = [ kind |-> "returned",
                         txId |-> deposits[d].txId,
                         existed |-> deposits[d].existed,
                         status |-> deposits[d].transaction.status,
                         hash |-> deposits[d].txHash,
                         collateralCreated |-> ~deposits[d].collateralExists ]
  /\ UNCHANGED <<acks, collateral, attestations, notDeposit>>

\* The save of the failed or of the completed document rejected: the outer
\* catch rethrows.
DepositSaveRejected(d) ==
  /\ deposits[d].pc \in {"fail_save", "final_save"}
  /\ DepositThrows(d)
  /\ UNCHANGED <<store, acks, collateral, attestations, notDeposit>>

\* No record yet; the depositor's address may have a collateral object.
InitDeposit ==
  /\ store = <<>>
  /\ acks = <<>>
  /\ calls = [c \in Calls |-> IdleCall]
  /\ cycles = [k \in Cycles |-> IdleCycle]
  /\ lastRet = NoRet
  /\ observed = FALSE
  /\ lastIter = NoIter
  /\ WalletLoaded(<<>>)
  /\ deposits = [d \in Deposits |-> IdleDeposit]
  /\ collateral \in SUBSET SuiAddresses
  /\ attestations = <<>>
  /\ depRet = NoDepRet
  /\ ListenerIdle

DepositNext(d) ==
  \/ DepositCall(d)
  \/ DepositInserted(d)
  \/ DepositInsertRejected(d)
  \/ DepositVerified(d)
  \/ DepositCollateralChecked(d)
  \/ DepositOnChain(d)
  \/ DepositSaved(d)
  \/ DepositSaveRejected(d)

NextDeposit == \E d \in Deposits : DepositNext(d)

SpecDeposit == InitDeposit /\ [][NextDeposit]_vars

(***************************************************************************)
(* Properties of the deposit orchestrator                                  *)
(***************************************************************************)

InProgress(i) ==
  \E d \in Deposits : deposits[d].txId = i /\ deposits[d].pc \notin {"idle", "done"}

\* C19: whenever processDeposit fails (verification fails, or the
\* verification, the collateral lookup, the create or attest step or an
\* update of the record raises), its record ends failed with an error
\* message: no deposit record stays in processing once its call is over.
C19_FailedDepositMarkedFailed ==
  /\ depRet.kind = "threw" /\ depRet.txId # 0 =>
       /\ store[depRet.txId].status = "failed"
       /\ store[depRet.txId].error # ""
  /\ \A i \in 1..Len(store) :
       store[i].type = "deposit" /\ store[i].status = "processing" => InProgress(i)

\* C20: when processDeposit succeeds, the stored record is completed with
\* the digest and processedAt, and the stored collateralCreated and the
\* returned collateralCreated are both true exactly when no collateral
\* object existed before the call.
C20_CollateralCreatedIffNew ==
  depRet.kind = "returned" =>
    LET doc == store[depRet.txId]
    IN /\ doc.status = "completed"
       /\ depRet.status = "completed"
       /\ doc.hash # 0
       /\ doc.hash = depRet.hash
       /\ doc.processedAt
       /\ doc.collateralCreated <=> ~depRet.existed
       /\ depRet.collateralCreated <=> ~depRet.existed

----------------------------------------------------------------------------
(* The event listener's operations.  A timer callback runs to its first    *)
(* await; batch.map starts processWithdrawEvent for every event of the     *)
(* batch before the first of them resumes, and an event that fails a       *)
(* validation check returns before its first await.  recordWithdrawalEvent *)
(* for an event is one step here: no two calls of a run carry the same     *)
(* event id.                                                               *)

\* Number of events the feed holds in a run.
MaxEvents == 3

\* Number of events the node serves per page in a run (at most QUERY_LIMIT).
NodePageSize == 2

\* Number of checkForEvents calls of a run.
MaxPolls == 2

\* Number of times the process is restarted in a run.
MaxCrashes == 1

\* Components no listener step changes.
notListener ==
  <<calls, cycles, lastRet, observed, lastIter, walletVars, depositVars>>

Min(a, b) == IF a < b THEN a ELSE b

\* CursorState.findOne({name: 'withdrawalEvents'})?.cursor || null
PersistedCursor == IF cursorRows = <<>> THEN 0 ELSE cursorRows[1].cursor

\* findOneAndUpdate({name}, {cursor, lastUpdated: new Date()}, {upsert: true});
\* the date is the number of the poll that writes it.
Upserted(c, date) ==
  IF cursorRows = <<>>
  THEN <<[name |-> "withdrawalEvents", cursor |-> c, lastUpdated |-> date]>>
  ELSE [cursorRows EXCEPT ![1] = [@ EXCEPT !.cursor = c, !.lastUpdated = date]]

\* client.queryEvents({query, limit: 50, cursor}): the events after the cursor
\* in ascending order, at most a page of them.
QueryEvents(c) ==
  LET n == Min(QUERY_LIMIT, feed.pageSize)
      last == Min(c + n, Len(feed.data))
  IN [ data |-> [k \in 1..(last - c) |-> c + k],
       hasNextPage |-> last < Len(feed.data),
       nextCursor |-> IF last > c THEN last ELSE 0 ]

InSeq(x, s) == \E k \in 1..Len(s) : s[k] = x

\* A variant that never trims.
KeepAll(s, n) == s

\* eventsArray.slice(eventsArray.length - n)
KeepLast(s, n) == SubSeq(s, Len(s) - n + 1, Len(s))

\* processedEvents.size > 10000
OverLimit(s) == Len(s) > MAX_PROCESSED_EVENTS

\* The de-duplication of fetchWithdrawEvents: the events of the page whose id
\* is not in processedEvents.
NewEvents(L, data) == SelectSeq(data, LAMBDA id : ~InSeq(id, L.processedEvents))

\* processedEvents after the new ids were added and the set was trimmed.
Remembered(L, new) ==
  LET all == L.processedEvents \o new
  IN IF OverLimit(all) THEN KeepLast(all, EVENTS_TO_KEEP) ELSE all

\* The arguments processWithdrawEvent passes to recordWithdrawalEvent.
RecordArgs(d) == [bitcoinAddress |-> d.btc_address, amount |-> d.amount.value]

\* A variant batch of batchSize + 1 events.
BatchOneMore(L) ==
  SubSeq(L.withdrawEvents, L.i + 1, Min(L.i + batchSize + 1, Len(L.withdrawEvents)))

\* withdrawEvents.slice(i, i + batchSize)
Batch(L) ==
  SubSeq(L.withdrawEvents, L.i + 1, Min(L.i + batchSize, Len(L.withdrawEvents)))

\* The events of a batch.
IdsOf(b) == {b[k] : k \in 1..Len(b)}

\* The events of a batch that reach the await of recordWithdrawalEvent.
Awaits(b) ==
  {b[k] : k \in {j \in 1..Len(b) : Validation(feed.data[b[j]]) = "record"}}

\* batch.map(async event => ...): every event of the batch is started.
StartBatch(L) ==
  [L EXCEPT !.pc = "batch",
            !.pending = Awaits(Batch(L)),
            !.started = L.started \o Batch(L),
            !.again = L.again \cup
                      {id \in IdsOf(Batch(L)) : InSeq(id, L.started)}]

\* A variant that polls again only after a poll that found events.
ScheduledNever(L, ms) == [L EXCEPT !.pc = "stopped"]

\* setTimeout(checkForEvents, ms)
Scheduled(L, ms) ==
  [L EXCEPT !.pc = "waiting", !.delay = ms, !.timers = @ + 1]

\* The interval after n consecutive empty polls (cur: the interval before).
Widened(n, cur) ==
  IF n > 10 THEN Min(baseIntervalMs * 2, MAX_INTERVAL_MS)
  ELSE IF n > 20 THEN Min(baseIntervalMs * 4, MAX_INTERVAL_MS)
  ELSE IF n > 50 THEN MAX_INTERVAL_MS
  ELSE cur

\* An else branch that sets a timer of its own before the common one.
EmptyPollSetsItsOwnTimer(L) ==
  LET n == L.consecutiveEmptyPolls + 1
      ms == Widened(n, L.currentIntervalMs)
  IN Scheduled(Scheduled([L EXCEPT !.consecutiveEmptyPolls = n,
                                   !.currentIntervalMs = ms], ms), ms)

\* The else branch of checkForEvents: no new event.
EmptyPoll(L) ==
  LET n == L.consecutiveEmptyPolls + 1
      ms == Widened(n, L.currentIntervalMs)
  IN Scheduled([L EXCEPT !.consecutiveEmptyPolls = n, !.currentIntervalMs = ms],
               ms)

\* fetchWithdrawEvents returns: the page is de-duplicated and remembered, and
\* checkForEvents starts the first batch or counts an empty poll.
Fetched(L, page) ==
  LET new == NewEvents(L, page.data)
      M == [L EXCEPT !.page = page, !.fetch = "ok",
                     !.processedEvents = Remembered(L, new),
                     !.withdrawEvents = new, !.i = 0]
  IN IF Len(new) > 0
     THEN StartBatch([M EXCEPT !.consecutiveEmptyPolls = 0])
     ELSE EmptyPoll(M)

\* The timer fires: checkForEvents calls fetchWithdrawEvents, which awaits
\* getStoredCursor.
PollStart(limit) ==
  /\ listener.pc = "waiting"
  /\ listener.polls < limit
  /\ listener' = [listener EXCEPT !.pc = "cursor", !.polls = @ + 1,
                                  !.since = @ + 1, !.timers = @ - 1,
                                  !.fetch = "none", !.page = NoPage,
                                  !.withdrawEvents = <<>>, !.i = 0]
  /\ UNCHANGED <<store, acks, feed, cursorRows, notListener>>

\* getStoredCursor: findOne resolved.
CursorRead ==
  /\ listener.pc = "cursor"
  /\ listener' = [listener EXCEPT !.pc = "query",
                                  !.storedCursor = PersistedCursor]
  /\ UNCHANGED <<store, acks, feed, cursorRows, notListener>>

\* getStoredCursor: findOne rejected; the catch returns null.
CursorReadFailed ==
  /\ listener.pc = "cursor"
  /\ listener' = [listener EXCEPT !.pc = "query", !.storedCursor = 0]
  /\ UNCHANGED <<store, acks, feed, cursorRows, notListener>>

\* queryEvents resolved.  A page with a next-page token awaits saveCursor.
QueryAnswered ==
  /\ listener.pc = "query"
  /\ LET page == QueryEvents(listener.storedCursor)
     IN listener' =
          IF page.hasNextPage /\ page.nextCursor # 0
          THEN [listener EXCEPT !.pc = "save", !.page = page]
          ELSE Fetched(listener, page)
  /\ UNCHANGED <<store, acks, feed, cursorRows, notListener>>

\* queryEvents rejected: the catch of fetchWithdrawEvents returns [].
QueryFailed ==
  /\ listener.pc = "query"
  /\ listener' = EmptyPoll([listener EXCEPT !.fetch = "failed"])
  /\ UNCHANGED <<store, acks, feed, cursorRows, notListener>>

\* saveCursor: the upsert resolved.
CursorSaved ==
  /\ listener.pc = "save"
  /\ cursorRows' = Upserted(listener.page.nextCursor, listener.polls)
  /\ listener' = Fetched(listener, listener.page)
  /\ UNCHANGED <<store, acks, feed, notListener>>

\* saveCursor: the upsert rejected; the catch logs.
CursorSaveFailed ==
  /\ listener.pc = "save"
  /\ listener' = Fetched(listener, listener.page)
  /\ UNCHANGED <<store, acks, feed, cursorRows, notListener>>

\* recordWithdrawalEvent resolved for event e: the record exists (found, or
\* inserted and attested).
EventRecorded(e) ==
  /\ listener.pc = "batch"
  /\ e \in listener.pending
  /\ IF FindOneByEventId(e) = 0
     THEN /\ store' = Append(store,
                Attested(NewTransaction(e, RecordArgs(feed.data[e]))))
          /\ acks' = Append(acks, 1)
     ELSE UNCHANGED <<store, acks>>
  /\ listener' = [listener EXCEPT !.pending = @ \ {e}]
  /\ UNCHANGED <<feed, cursorRows, notListener>>

\* recordWithdrawalEvent rejected for event e before its save resolved; the
\* catch of processWithdrawEvent logs.
EventFailed(e) ==
  /\ listener.pc = "batch"
  /\ e \in listener.pending
  /\ listener' = [listener EXCEPT !.pending = @ \ {e}]
  /\ UNCHANGED <<store, acks, feed, cursorRows, notListener>>

\* recordWithdrawalEvent rejected for event e in attestWithdrawal: the record
\* was inserted and not attested.
EventHalfRecorded(e) ==
  /\ listener.pc = "batch"
  /\ e \in listener.pending
  /\ FindOneByEventId(e) = 0
  /\ store' = Append(store, NewTransaction(e, RecordArgs(feed.data[e])))
  /\ acks' = Append(acks, 0)
  /\ listener' = [listener EXCEPT !.pending = @ \ {e}]
  /\ UNCHANGED <<feed, cursorRows, notListener>>

\* Promise.all resolved: pause before the next batch, or the poll ends.
BatchJoined ==
  /\ listener.pc = "batch"
  /\ listener.pending = {}
  /\ listener' =
       IF listener.i + batchSize < Len(listener.withdrawEvents)
       THEN [listener EXCEPT !.pc = "pause"]
       ELSE Scheduled([listener EXCEPT !.currentIntervalMs = baseIntervalMs,
                                       !.consecutiveFailures = 0],
                      baseIntervalMs)
  /\ UNCHANGED <<store, acks, feed, cursorRows, notListener>>

\* The pause between batches is over: the next batch is started.
PauseOver ==
  /\ listener.pc = "pause"
  /\ listener' = StartBatch([listener EXCEPT !.i = @ + batchSize])
  /\ UNCHANGED <<store, acks, feed, cursorRows, notListener>>

\* The hourly cleanup of processedEvents.
Cleanup ==
  /\ Len(listener.processedEvents) > CLEANUP_THRESHOLD
  /\ listener' = [listener EXCEPT
                    !.processedEvents = KeepLast(@, EVENTS_TO_KEEP)]
  /\ UNCHANGED <<store, acks, feed, cursorRows, notListener>>

\* The process dies and is started again: the module state is new, the
\* collections are what they were.
Restart ==
  /\ listener.crashes < MaxCrashes
  /\ listener' = [IdleListener EXCEPT !.polls = listener.polls,
                                      !.crashes = listener.crashes + 1]
  /\ UNCHANGED <<store, acks, feed, cursorRows, notListener>>

\* The contract emits a withdrawal event.
Emit(d, limit) ==
  /\ Len(feed.data) < limit
  /\ feed' = [feed EXCEPT !.data = Append(@, d)]
  /\ UNCHANGED <<store, acks, cursorRows, listener, notListener>>

\* The loop's steps between the timer and the next timer.
PollStep ==
  \/ CursorRead
  \/ QueryAnswered
  \/ CursorSaved
  \/ \E e \in 1..Len(feed.data) : EventRecorded(e)
  \/ BatchJoined

\* The steps in which a storage or node call rejects.
FaultStep ==
  \/ CursorReadFailed
  \/ QueryFailed
  \/ CursorSaveFailed
  \/ \E e \in 1..Len(feed.data) : EventFailed(e) \/ EventHalfRecorded(e)

\* The feeds of the listener specification: MaxEvents events, each the valid
\* withdrawal or one malformed payload m.
Feeds(m) == [1..MaxEvents -> {ValidWithdrawal, m}]

InitListener ==
  /\ store = <<>>
  /\ calls = [c \in Calls |-> IdleCall]
  /\ cycles = [k \in Cycles |-> IdleCycle]
  /\ lastRet = NoRet
  /\ acks = <<>>
  /\ observed = FALSE
  /\ lastIter = NoIter
  /\ WalletLoaded(<<>>)
  /\ DepositsIdle
  /\ \E m \in MalformedShapes : \E f \in Feeds(m) :
       feed = [data |-> f, pageSize |-> NodePageSize]
  /\ cursorRows = <<>>
  /\ listener = IdleListener

NextListener ==
  \/ PollStart(MaxPolls)
  \/ PollStep
  \/ FaultStep
  \/ Restart

\* The listener over a feed of valid and malformed events, with storage and
\* node faults and process restarts.
SpecListener == InitListener /\ [][NextListener]_vars

----------------------------------------------------------------------------
(* Properties of the event listener.                                       *)

Events == 1..Len(feed.data)

\* The events processWithdrawEvent hands to recordWithdrawalEvent.
Valid(e) == Validation(feed.data[e]) = "record"

Recorded(e) == FindOneByEventId(e) # 0

\* C21: every well-formed withdrawal event of the feed ends with a record in
\* the store, whatever crash or storage failure happens while it is
\* processed: once the persisted cursor has passed a well-formed event and
\* the poll that fetched it is over, so that no later query returns the
\* event, the event has its record.
C21_PassedEventsAreRecorded ==
  \A e \in Events :
    Valid(e) /\ e <= PersistedCursor /\ listener.pc = "waiting" => Recorded(e)

\* The documents recorded for event e.
RecordsOf(e) == {i \in Ids : store[i].type = "withdrawal" /\ store[i].eventId = e}

\* C22: after a restart at any point the first poll queries from the last
\* persisted cursor, not from the start of the history, and no event has a
\* second record.
C22_RestartResumesFromCursor ==
  /\ listener.crashes > 0 /\ listener.since = 1 /\ listener.pc = "query" =>
       listener.storedCursor = PersistedCursor
  /\ \A e \in Events : Cardinality(RecordsOf(e)) <= 1

----------------------------------------------------------------------------
(* The listener late in a long run: the feed has filled the de-duplication *)
(* set up to its limit.                                                    *)

\* The full pages the run has fetched: one page less than the limit holds.
PollsBefore == (MAX_PROCESSED_EVENTS \div QUERY_LIMIT) - 1

SeenBefore == PollsBefore * QUERY_LIMIT

\* A feed of malformed events (amount 0); the first event after the limit is
\* a valid withdrawal.
LongFeed ==
  [ k \in 1..(MAX_PROCESSED_EVENTS + QUERY_LIMIT + MaxEvents) |->
      IF k = MAX_PROCESSED_EVENTS + 1 THEN ValidWithdrawal
      ELSE [ValidWithdrawal EXCEPT !.amount = AmountOf(0)] ]

\* The loop after PollsBefore polls that each fetched a full page, persisted
\* its cursor and processed its events.
LateListener ==
  [ IdleListener EXCEPT
      !.delay = baseIntervalMs,
      !.processedEvents = [k \in 1..SeenBefore |-> k],
      !.storedCursor = SeenBefore - QUERY_LIMIT,
      !.fetch = "ok",
      !.page = [ data |-> [k \in 1..QUERY_LIMIT |-> SeenBefore - QUERY_LIMIT + k],
                 hasNextPage |-> TRUE, nextCursor |-> SeenBefore ],
      !.withdrawEvents = [k \in 1..QUERY_LIMIT |-> SeenBefore - QUERY_LIMIT + k],
      !.i = QUERY_LIMIT - batchSize,
      !.started = [k \in 1..SeenBefore |-> k],
      !.since = PollsBefore,
      !.polls = PollsBefore ]

InitDedup ==
  /\ store = <<>>
  /\ calls = [c \in Calls |-> IdleCall]
  /\ cycles = [k \in Cycles |-> IdleCycle]
  /\ lastRet = NoRet
  /\ acks = <<>>
  /\ observed = FALSE
  /\ lastIter = NoIter
  /\ WalletLoaded(<<>>)
  /\ DepositsIdle
  /\ feed = [data |-> LongFeed, pageSize |-> QUERY_LIMIT]
  /\ cursorRows = <<[ name |-> "withdrawalEvents", cursor |-> SeenBefore,
                      lastUpdated |-> PollsBefore ]>>
  /\ listener = LateListener

NextDedup ==
  \/ PollStart(PollsBefore + MaxPolls + 1)
  \/ PollStep
  \/ PauseOver
  \/ Cleanup
  \/ CursorReadFailed
  \/ QueryFailed
  \/ CursorSaveFailed

SpecDedup == InitDedup /\ [][NextDedup]_vars

\* C23: a malformed withdrawal event never creates a record, and it is handed
\* to processWithdrawEvent at most once in a run.
C23_MalformedSkippedOnce ==
  /\ \A i \in Ids : store[i].type = "withdrawal" => Valid(store[i].eventId)
  /\ \A e \in listener.again : Valid(e)

----------------------------------------------------------------------------
(* The listener over one page of more than batchSize events.  The process  *)
(* was restarted: an earlier run recorded the first batchSize - 1 events   *)
(* (the page had no next-page token, so no cursor was persisted), and the  *)
(* events after them are new.                                              *)

RecordedBefore == batchSize - 1

\* Valid withdrawals, but for the next to last but one, whose amount is above
\* the maximum.
PageFeed ==
  [ k \in 1..(batchSize + MaxEvents) |->
      IF k = batchSize + 2
      THEN [ValidWithdrawal EXCEPT !.amount = AmountOf(MAX_WITHDRAWAL_AMOUNT + 1)]
      ELSE ValidWithdrawal ]

InitBatch ==
  /\ store = [k \in 1..RecordedBefore |->
               Attested(NewTransaction(k, RecordArgs(PageFeed[k])))]
  /\ calls = [c \in Calls |-> IdleCall]
  /\ cycles = [k \in Cycles |-> IdleCycle]
  /\ lastRet = NoRet
  /\ acks = [k \in 1..RecordedBefore |-> 1]
  /\ observed = FALSE
  /\ lastIter = NoIter
  /\ WalletLoaded(<<>>)
  /\ DepositsIdle
  /\ feed = [data |-> PageFeed, pageSize |-> QUERY_LIMIT]
  /\ cursorRows = <<>>
  /\ listener = IdleListener

\* The steps of a poll, a rejected query and a rejected recordWithdrawalEvent
\* among them.
BatchStep ==
  \/ CursorRead
  \/ QueryAnswered
  \/ QueryFailed
  \/ \E e \in 1..Len(feed.data) : EventRecorded(e)
  \/ \E e \in 1..Len(feed.data) : EventFailed(e)
  \/ BatchJoined
  \/ PauseOver

NextBatch ==
  \/ PollStart(MaxPolls)
  \/ BatchStep

SpecBatch == InitBatch /\ [][NextBatch]_vars

\* The events of the poll's batches up to the one in progress.
StartedInPoll(L) ==
  IdsOf(SubSeq(L.withdrawEvents, 1, Min(L.i + batchSize, Len(L.withdrawEvents))))

\* C24: a failure while one event is processed stops neither the other events
\* of its batch nor the later batches, and every poll outcome (events found,
\* none found, fetch failed) schedules the next poll: the loop is never
\* stuck, a poll that is over has started every event it fetched and has
\* armed the timer.
C24_PollingContinues ==
  /\ listener.pc \in {"waiting", "cursor", "query", "save", "batch", "pause"}
  /\ listener.pc # "waiting" => ENABLED BatchStep
  /\ listener.pc = "waiting" /\ listener.since > 0 =>
       /\ listener.delay > 0
       /\ listener.pending = {}
       /\ StartedInPoll(listener) = IdsOf(listener.withdrawEvents)
       /\ IdsOf(listener.withdrawEvents) \subseteq IdsOf(listener.started)

\* A poll is over in which recordWithdrawalEvent rejected for an event of the
\* first batch, and an event of the second batch was recorded after it.
C24_Witness ==
  /\ listener.pc = "waiting"
  /\ listener.fetch = "ok"
  /\ Len(listener.withdrawEvents) > batchSize
  /\ ~Recorded(listener.withdrawEvents[batchSize])
  /\ Recorded(listener.withdrawEvents[batchSize + 1])


\* C28: within a poll the events are processed in consecutive batches of at
\* most batchSize: never more than batchSize events are in flight, and a step
\* that starts events starts the next slice of at most batchSize events of
\* the poll, in order, when no event started before is still in flight.
C28_BatchesOfTen ==
  [][ /\ Cardinality(listener'.pending) <= batchSize
      /\ listener'.started # listener.started =>
           /\ listener.pending = {}
           /\ Len(listener'.started) - Len(listener.started) <= batchSize
           /\ listener'.i \in {0, listener.i + batchSize}
           /\ listener'.started =
                listener.started \o
                  SubSeq(listener'.withdrawEvents, listener'.i + 1,
                         Len(listener'.started) - Len(listener.started)
                           + listener'.i)
           /\ \/ Len(listener'.started) - Len(listener.started) = batchSize
              \/ Len(listener'.withdrawEvents) =
                   Len(listener'.started) - Len(listener.started) + listener'.i
    ]_vars

\* The second batch of a poll is in progress.
C28_Witness ==
  /\ listener.pc = "batch"
  /\ listener.i = batchSize
  /\ listener.pending # {}


\* C25: after a page fetch that returned a next-page token, the one row of
\* channel withdrawalEvents holds that token, refreshed in this poll, before
\* any event of the page is handed to recordWithdrawalEvent; and there is
\* never more than one cursor row.
C25_CursorSavedBeforeProcessing ==
  /\ Len(cursorRows) <= 1
  /\ listener.pc \in {"batch", "pause"} /\ listener.page.hasNextPage
       /\ listener.page.nextCursor # 0 =>
         /\ cursorRows # <<>>
         /\ cursorRows[1].name = "withdrawalEvents"
         /\ cursorRows[1].cursor = listener.page.nextCursor
         /\ cursorRows[1].lastUpdated = listener.polls

----------------------------------------------------------------------------
(* The listener over a quiet feed: long runs of polls that find nothing,   *)
(* with an event emitted now and then.                                     *)

\* Number of checkForEvents calls of a quiet run.
MaxQuietPolls == 52

InitPolling ==
  /\ store = <<>>
  /\ calls = [c \in Calls |-> IdleCall]
  /\ cycles = [k \in Cycles |-> IdleCycle]
  /\ lastRet = NoRet
  /\ acks = <<>>
  /\ observed = FALSE
  /\ lastIter = NoIter
  /\ WalletLoaded(<<>>)
  /\ DepositsIdle
  /\ ListenerIdle

NextPolling ==
  \/ PollStart(MaxQuietPolls)
  \/ CursorRead
  \/ QueryAnswered
  \/ QueryFailed
  \/ \E e \in 1..Len(feed.data) : EventRecorded(e)
  \/ BatchJoined
  \/ Emit(ValidWithdrawal, MaxEvents - 1)

SpecPolling == InitPolling /\ [][NextPolling]_vars

\* C26: the delay between polls starts at the 5 s base, widens in stages as
\* the consecutive empty polls grow (above 10, above 20, above 50) until it
\* is the 30 s cap, never exceeds the cap, and is the base again after a poll
\* that found events.
C26_IntervalWidensToCap ==
  listener.pc = "waiting" /\ listener.since > 0 =>
    /\ listener.delay = listener.currentIntervalMs
    /\ listener.currentIntervalMs >= baseIntervalMs
    /\ listener.currentIntervalMs <= MAX_INTERVAL_MS
    /\ listener.consecutiveEmptyPolls = 0 =>
         listener.currentIntervalMs = baseIntervalMs
    /\ listener.consecutiveEmptyPolls > 20 =>
         listener.currentIntervalMs > baseIntervalMs * 2
    /\ listener.consecutiveEmptyPolls > 50 =>
         listener.currentIntervalMs = MAX_INTERVAL_MS

\* C27: a failed fetch increases the consecutive-failure count and delays the
\* next poll by twice the current interval while the count is at most
\* MAX_CONSECUTIVE_FAILURES; the count is 0 after a successful poll.
C27_FailedFetchBacksOff ==
  [][ /\ listener.pc = "query" /\ listener'.fetch = "failed" =>
           /\ listener'.consecutiveFailures = listener.consecutiveFailures + 1
           /\ listener'.consecutiveFailures <= MAX_CONSECUTIVE_FAILURES =>
                listener'.delay = listener.currentIntervalMs * 2
      /\ listener'.pc = "waiting" /\ listener'.fetch = "ok" =>
           listener'.consecutiveFailures = 0
    ]_vars


\* The ids a step adds to processedEvents: the new events of the page when
\* the step is the return of fetchWithdrawEvents.
Added == IF listener.pc \in {"query", "save"} THEN listener'.withdrawEvents ELSE <<>>

\* C29: the processed-ids set is bounded: it never holds more than
\* MAX_PROCESSED_EVENTS ids when fetchWithdrawEvents has returned, and a step
\* that trims it retains exactly the EVENTS_TO_KEEP ids added last, in the
\* order they were added.
C29_ProcessedIdsBounded ==
  [][ /\ Len(listener'.processedEvents) <= MAX_PROCESSED_EVENTS
      /\ Len(listener'.processedEvents) < Len(listener.processedEvents) =>
           LET all == listener.processedEvents \o Added
           IN /\ Len(listener'.processedEvents) = EVENTS_TO_KEEP
              /\ listener'.processedEvents =
                   SubSeq(all, Len(all) - EVENTS_TO_KEEP + 1, Len(all))
    ]_vars

\* fetchWithdrawEvents has trimmed the set: it held MAX_PROCESSED_EVENTS ids
\* and a page of new ones was added.
C29_Witness ==
  /\ listener.fetch = "ok"
  /\ Len(listener.processedEvents) = EVENTS_TO_KEEP
  /\ listener.processedEvents[EVENTS_TO_KEEP] = MAX_PROCESSED_EVENTS + QUERY_LIMIT
  /\ listener.processedEvents[1] =
       MAX_PROCESSED_EVENTS + QUERY_LIMIT - EVENTS_TO_KEEP + 1


----------------------------------------------------------------------------
(* The payout processor and records without payout information.            *)

\* C30: a payout iteration for a selected document that lacks the payout
\* address or the amount leaves it failed with an error, without a send, and
\* the cycle goes on with the documents selected after it.
C30_MissingInfoFailsWithoutSend ==
  [][\A k \in Cycles :
       Iterates(k) /\ MissingInfo(store[Head(cycles[k].sel)]) =>
         LET new == store'[Head(cycles[k].sel)]
         IN /\ new.status = "failed"
            /\ new.error # ""
            /\ new.bitcoinWithdrawalTxHash = 0
            /\ ~lastIter'.sent
            /\ cycles'[k] = Loop(Tail(cycles[k].sel))]_vars

----------------------------------------------------------------------------
(* getUtxos called directly.  The explorer lists the outputs of the wallet *)
(* address with their status: the unspent outputs of the chain are         *)
(* confirmed, and outputs of transactions still in the mempool may be      *)
(* listed with them.  A call that ended keeps in pc the return statement   *)
(* it took ("cached", "fetched", "fallback", or "threw") and in resp the   *)
(* outputs it returned.                                                    *)

\* Outputs paying the wallet address from transactions not yet in a block.
PendingOutputs == {[id |-> 8, value |-> 700000], [id |-> 9, value |-> 12806]}

\* response.data of the list request.
Listing(confirmed, pending) ==
  {[id |-> u.id, value |-> u.value, status |-> [confirmed |-> TRUE]] : u \in confirmed}
    \cup
  {[id |-> u.id, value |-> u.value, status |-> [confirmed |-> FALSE]] : u \in pending}

\* response.data.filter(utxo => utxo.status.confirmed)
ConfirmedOutputs(data) ==
  {[id |-> u.id, value |-> u.value] : u \in {x \in data : x.status.confirmed}}

\* A getUtxos call that ended with return statement pc and outputs utxos.
UtxosEnded(call, pc, utxos) ==
  [IdleSend EXCEPT !.op = "utxos", !.pc = pc, !.resp = utxos,
                   !.forceRefresh = call.forceRefresh, !.net = call.net]

\* !forceRefresh && cachedUtxos.length > 0 && (now - lastUtxoFetch) < UTXO_CACHE_TTL
ServesCache(forceRefresh) == ~forceRefresh /\ CacheFresh

\* A variant of the catch block that always rethrows.
UtxosCaughtRethrows(call) == UtxosEnded(call, "threw", {})

\* The catch block of getUtxos.
UtxosCaught(call) ==
  IF cachedUtxos # {} THEN UtxosEnded(call, "fallback", cachedUtxos)
  ELSE UtxosEnded(call, "threw", {})

\* getUtxos(forceRefresh) is called: the cache is returned, or the list
\* request is sent.
GetUtxos(w) ==
  /\ CanUse(w)
  /\ \E f \in BOOLEAN :
       LET call == [IdleSend EXCEPT !.op = "utxos", !.forceRefresh = f]
       IN sends' = [sends EXCEPT ![w] =
            IF ServesCache(f) THEN UtxosEnded(call, "cached", cachedUtxos)
            ELSE [call EXCEPT !.pc = "utxos_list", !.net = TRUE,
                              !.fetchedAt = now]]
  /\ UNCHANGED <<withdrawalVars, depositVars, listenerVars>>
  /\ UNCHANGED <<chain, cachedUtxos, lastUtxoFetch, now, broadcasts, walletLog>>

\* The explorer answered the list request; the confirmed outputs are kept and
\* the transaction of each is requested.
GetUtxosListed(w) ==
  /\ sends[w].pc = "utxos_list"
  /\ \E pending \in SUBSET PendingOutputs :
       sends' = [sends EXCEPT ![w] =
         [@ EXCEPT !.resp = ConfirmedOutputs(Listing(chain, pending)),
                   !.pc = "utxos_detail"]]
  /\ UNCHANGED <<withdrawalVars, depositVars, listenerVars>>
  /\ UNCHANGED <<chain, cachedUtxos, lastUtxoFetch, now, broadcasts, walletLog>>

\* The transaction requests resolved: the cache is set and returned.
GetUtxosDetailed(w) ==
  /\ sends[w].pc = "utxos_detail"
  /\ cachedUtxos' = sends[w].resp
  /\ lastUtxoFetch' = sends[w].fetchedAt
  /\ sends' = [sends EXCEPT ![w] = UtxosEnded(@, "fetched", @.resp)]
  /\ UNCHANGED <<withdrawalVars, depositVars, listenerVars>>
  /\ UNCHANGED <<chain, now, broadcasts, walletLog>>

\* A request of the call rejected: the catch logs and falls back or rethrows.
GetUtxosFailed(w) ==
  /\ sends[w].pc \in {"utxos_list", "utxos_detail"}
  /\ sends' = [sends EXCEPT ![w] = UtxosCaught(@)]
  /\ walletLog' = "Error fetching UTXOs"
  /\ UNCHANGED <<withdrawalVars, depositVars, listenerVars>>
  /\ UNCHANGED <<chain, cachedUtxos, lastUtxoFetch, now, broadcasts>>

\* A payment to the wallet address is confirmed.
Received ==
  /\ \E u \in PendingOutputs :
       /\ \A v \in chain : v.id # u.id
       /\ chain' = chain \cup {u}
  /\ UNCHANGED <<withdrawalVars, depositVars, listenerVars>>
  /\ UNCHANGED <<cachedUtxos, lastUtxoFetch, now, sends, broadcasts, walletLog>>

UtxosNext(w) ==
  \/ GetUtxos(w)
  \/ GetUtxosListed(w)
  \/ GetUtxosDetailed(w)
  \/ GetUtxosFailed(w)

NextUtxos ==
  \/ \E w \in Sends : UtxosNext(w)
  \/ Received
  \/ Tick

\* getUtxos calls, overlapping ones included, while time passes and payments
\* are confirmed.
SpecUtxos == InitWallet /\ [][NextUtxos]_vars

\* Call w is a getUtxos call entered in this step.
UtxosStarts(w) == sends[w].pc = "idle" /\ sends'[w].op = "utxos"

\* Call w is a getUtxos call that returned or threw in this step.
UtxosEnds(w) ==
  /\ sends[w].pc \in {"idle", "utxos_list", "utxos_detail"}
  /\ sends'[w].pc \in {"cached", "fetched", "fallback", "threw"}

\* C31: getUtxos returns only confirmed outputs; a call without forceRefresh
\* serves the cache exactly when the cache is non-empty and younger than
\* UTXO_CACHE_TTL, and every other call sends a request; a call whose fetch
\* fails returns the cache when that is non-empty and throws otherwise, and
\* does not change the cache.
C31_GetUtxosCacheAndFallback ==
  [][\A w \in Sends :
       /\ UtxosStarts(w) =>
            /\ sends'[w].pc = "cached" <=>
                 /\ ~sends'[w].forceRefresh
                 /\ cachedUtxos # {}
                 /\ now - lastUtxoFetch < UTXO_CACHE_TTL
            /\ sends'[w].pc = "cached" =>
                 sends'[w].resp = cachedUtxos /\ ~sends'[w].net
            /\ sends'[w].pc # "cached" => sends'[w].pc = "utxos_list"
       /\ UtxosEnds(w) =>
            /\ sends'[w].resp \cap PendingOutputs \subseteq chain
            /\ sends[w].pc # "idle" /\ sends'[w].pc # "fetched" =>
                 /\ cachedUtxos # {} =>
                      sends'[w].pc = "fallback" /\ sends'[w].resp = cachedUtxos
                 /\ cachedUtxos = {} => sends'[w].pc = "threw"
            /\ sends'[w].pc # "fetched" =>
                 cachedUtxos' = cachedUtxos /\ lastUtxoFetch' = lastUtxoFetch
            /\ sends'[w].pc = "fetched" => sends'[w].resp = cachedUtxos'
    ]_vars

\* A call fetched the outputs, and the fetch of a later call with
\* forceRefresh failed: it returned the cached outputs.
C31_Witness ==
  \E v, w \in Sends :
    /\ sends[v].pc = "fetched"
    /\ sends[w].pc = "fallback" /\ sends[w].forceRefresh /\ sends[w].resp # {}


(***************************************************************************)
(* The attested amount                                                     *)
(***************************************************************************)

\* The utility that made an attestation.
Utilities == {"attestToCollateral", "createCollateralObject"}

\* C32: on both deposit paths the amount attested is the first output value
\* of the Bitcoin transaction times 100,000,000 (0.01 gives 1,000,000), for
\* any caller.
C32_AttestedAmountIsFirstOutput ==
  \A i \in DOMAIN attestations :
    LET a == attestations[i]
        value == Explorer[a.btcTxnHash].vout[1]
    IN /\ a.by \in Utilities
       /\ (value.num * 100000000) % value.den = 0
       /\ a.amount = (value.num * 100000000) \div value.den
       /\ value = Decimal(1, 100) => a.amount = 1000000

\* Both utilities have attested a deposit.
C32_Witness ==
  \A u \in Utilities : \E i \in DOMAIN attestations : attestations[i].by = u


\* C39: for any sequence or interleaving of processDeposit calls, a Bitcoin
\* transaction hash is attested at most once.
C39_HashAttestedOnce ==
  \A i, j \in DOMAIN attestations :
    attestations[i].btcTxnHash = attestations[j].btcTxnHash => i = j


(***************************************************************************)
(* One payout per withdrawal record                                        *)
(***************************************************************************)

\* The payouts broadcast for the document: each send that resolved with a
\* hash stores the successor of the hash the document held (FreshHash).
Payouts(doc) == doc.bitcoinWithdrawalTxHash

\* C33: for every withdrawal record the send is invoked, and a payout
\* broadcast, at most once over the whole run, for any interleaving of the
\* startup run and the interval runs.
C33_SentAtMostOnce ==
  \A i \in Ids : Payouts(store[i]) <= 1


(***************************************************************************)
(* One poll at a time                                                      *)
(***************************************************************************)

\* The checkForEvents invocations in progress.
Running == IF listener.pc \in {"cursor", "query", "save", "batch", "pause"}
           THEN 1 ELSE 0

\* C34: polls never overlap: at most one checkForEvents invocation is
\* running or scheduled, each invocation scheduling its one successor only
\* when it has finished its page.
C34_PollsNeverOverlap ==
  /\ Running + listener.timers <= 1
  /\ listener.pc = "waiting" => listener.timers = 1

\* A second poll is at work on its batch, with no timer set.
C34_Witness ==
  /\ listener.since >= 2
  /\ listener.pc = "batch"
  /\ listener.timers = 0


(***************************************************************************)
(* Every withdrawal record is resolved                                     *)
(***************************************************************************)

\* The interval timer of setupWithdrawalListener fires as long as the
\* process runs: a slot whose run has ended is used for a later run.
NextInterval(k) ==
  /\ cycles[k].pc = "done"
  /\ cycles' = [cycles EXCEPT ![k] = IdleCycle]
  /\ UNCHANGED <<store, calls, lastRet, acks, observed, lastIter, others>>

NextFair ==
  \/ Next
  \/ \E k \in Cycles : NextInterval(k)

\* Every call that has started goes on, the timer keeps firing, and neither
\* find nor the save of a payout iteration rejects for ever.
Fairness ==
  /\ \A c \in Calls : WF_vars(CallNext(c))
  /\ \A k \in Cycles : WF_vars(NextInterval(k))
  /\ \A k \in Cycles : SF_vars(CycleFind(k))
  /\ \A k \in Cycles : SF_vars(ProcessSaved(k))

SpecFair == Init /\ [][NextFair]_vars /\ Fairness

\* C35: every withdrawal record recordWithdrawalEvent created eventually
\* reaches completed or failed, whatever the attestWithdrawal call that
\* follows its creation and the storage and network calls resolve with.
C35_EveryRecordResolved ==
  \A i \in 1..MaxCalls :
    (Len(store) >= i) ~> (Len(store) >= i /\ Terminal(store[i]))


(***************************************************************************)
(* Status and payout hash                                                  *)
(***************************************************************************)

\* C36: in every reachable state a withdrawal record is completed exactly
\* when its bitcoinWithdrawalTxHash is set (and then processedAt is set and
\* the threshold reached), and a failed withdrawal record has an error
\* message and no payout hash.
C36_CompletedIffHashSet ==
  \A i \in Ids :
    LET doc == store[i]
    IN doc.type = "withdrawal" =>
         /\ doc.status = "completed" <=> doc.bitcoinWithdrawalTxHash # 0
         /\ doc.status = "completed" =>
              doc.processedAt /\ doc.withdrawalThresholdReached
         /\ doc.status = "failed" =>
              doc.error # "" /\ doc.bitcoinWithdrawalTxHash = 0


(***************************************************************************)
(* Conservation of value                                                   *)
(***************************************************************************)

\* The network accepts the transaction of call w in this step.
Broadcasts(w) ==
  /\ sends[w].pc = "broadcast"
  /\ sends'[w].pc # "broadcast"
  /\ Len(broadcasts') = Len(broadcasts) + 1

\* C37: in every transaction sendBitcoinTransaction broadcasts the selected
\* inputs total the amount, the change output (0 when there is none) and the
\* fee paid; the fee paid is at least estimatedSize * feeRate and exceeds it
\* by at most 546; and the destination output is the requested amount.
C37_ValueConserved ==
  [][\A w \in Sends :
       Broadcasts(w) =>
         LET tx == broadcasts'[Len(broadcasts')]
             estimated == FeeOf(Len(tx.inputs), tx.feeRate)
         IN /\ Range(tx.inputs) \subseteq chain
            /\ chain' = chain \ Range(tx.inputs)
            /\ tx.change >= 0
            /\ InputTotal(tx) = tx.amount + tx.change + PaidFee(tx)
            /\ PaidFee(tx) >= estimated
            /\ PaidFee(tx) <= estimated + DUST_THRESHOLD
            /\ tx.amount = sends[w].amount
            /\ tx.to = sends[w].to]_vars

\* A transaction without change output was accepted that pays 546 more than
\* the estimated fee.
C37_Witness ==
  \E n \in 1..Len(broadcasts) :
    /\ broadcasts[n].change = 0
    /\ PaidFee(broadcasts[n]) =
         FeeOf(Len(broadcasts[n].inputs), broadcasts[n].feeRate) + DUST_THRESHOLD


(***************************************************************************)
(* From the event feed to the payout: the two validations                  *)
(***************************************************************************)

\* Payloads of withdrawal events: the two addresses of 34 letters and
\* digits that start with 1 (the second holds the digit 0, which base58
\* has not), with amounts from 1 satoshi to the maximum.
Withdrawals ==
  { [ValidWithdrawal EXCEPT !.btc_address = a, !.amount = AmountOf(n)] :
      a \in {"1BoatSLRHtKNngkdXEeobR76b53LETtpyT",
             "1A1zP1eP5QGefi2DMPTfTL5SLmv7DivfN0"},
      n \in {1, MIN_WITHDRAWAL - 1, MIN_WITHDRAWAL, 600000,
             MAX_WITHDRAWAL_AMOUNT} }

\* The node holds one withdrawal event, the store is empty and the wallet
\* address is funded.
InitPipeline ==
  /\ store = <<>>
  /\ calls = [c \in Calls |-> IdleCall]
  /\ cycles = [k \in Cycles |-> IdleCycle]
  /\ lastRet = NoRet
  /\ acks = <<>>
  /\ observed = FALSE
  /\ lastIter = NoIter
  /\ \E f \in Funds : WalletLoaded(f)
  /\ DepositsIdle
  /\ \E d \in Withdrawals : feed = [data |-> <<d>>, pageSize |-> NodePageSize]
  /\ cursorRows = <<>>
  /\ listener = IdleListener

\* The steps of a payout run's wallet call, no two calls overlapping.
PayoutNext(w) ==
  /\ sends[w].pc = "idle" => Quiet
  /\ \/ PayoutCall(w)
     \/ PayoutSave(w)
     \/ FeeResolved(w)
     \/ UtxoListed(w)
     \/ UtxoDetailed(w)
     \/ UtxoFetchFailed(w)
     \/ BroadcastAccepted(w)
     \/ BroadcastRejected(w)

NextPipeline ==
  \/ PollStart(MaxPolls)
  \/ CursorRead
  \/ QueryAnswered
  \/ \E e \in 1..Len(feed.data) : EventRecorded(e)
  \/ BatchJoined
  \/ \E w \in Sends : PayoutNext(w)

SpecPipeline == InitPipeline /\ [][NextPipeline]_vars

\* What processWithdrawalToBitcoin logs when its own checks reject.
PayoutRejections ==
  { "Invalid Bitcoin address format", "Withdrawal amount too small",
    "Withdrawal amount too large" }

\* C38: the ingestor's and the payout path's validations agree: no
\* withdrawal recorded from an event that processWithdrawEvent accepted is
\* rejected by the checks of processWithdrawalToBitcoin.
C38_ValidationsAgree == walletLog \notin PayoutRejections

====
